---- MODULE Spec2Model ----
(***************************************************************************)
(* Model of the AppleScript execution core of bb-applescript-mcp-server:   *)
(* timeout validation, template rendering, error classification, script    *)
(* location and the compile-then-run pipeline.                             *)
(*                                                                         *)
(* Text is modelled as a sequence of tokens.  A token is one character     *)
(* ("\"", "\\", ":", a digit, ...) or an atomic run of letters (a word or  *)
(* phrase such as "syntax error") that contains none of the characters the *)
(* code inspects individually.                                             *)
(*                                                                         *)
(* Times are in model units; the program's 30000 ms / 300000 ms defaults   *)
(* are environment-overridable, so the model draws default and maximum     *)
(* from small ranges.                                                      *)
(***************************************************************************)
EXTENDS Integers, Sequences, FiniteSets, TLC

VARIABLES
    \* ---- validateTimeout ----
    tPc,        \* "ready" | "done"
    tReq,       \* [present : BOOLEAN, value : Nat]  the `timeout?: number` argument
    tDef,       \* APPLESCRIPT_TIMEOUT_DEFAULT as resolved by getDefaultTimeout()
    tMax,       \* APPLESCRIPT_TIMEOUT_MAX as resolved by getMaxTimeout()
    tOut,       \* value returned by validateTimeout
    \* ---- template renderer ----
    rPc,        \* "ready" | "done"
    rEntry,     \* which renderer entry point converts the value
    rVal,       \* the string value handed to the renderer
    rOut,       \* the text produced
    \* ---- error classifier ----
    cPc,        \* "ready" | "done"
    cText,      \* the diagnostic text (stderr)
    cKind,      \* the ErrorType returned by parseAppleScriptError
    \* ---- compileAndRun / runAppleScript pipeline ----
    pPc,          \* position of the compileAndRun call
    pSource,      \* scriptSource, as its sequence of lines
    pTimeoutReq,  \* the `timeout?: number` argument
    pDebug,       \* getDebugConfig(): [enabled, saveAll, contextLines]
    pFiles,       \* temp files that exist
    pRemoveFails, \* temp files whose removal fails (set by the file system)
    pDiag,        \* what the compiler reported: [form, line, col, phrase]
    pStderr,      \* stderr of the process that failed last
    pOutcome,     \* the exit path taken
    pSpawned,     \* external processes spawned, in order
    pDebugDir,
    pHangs,       \* the external processes that never terminate on their own
    pWriteFailed, \* a write of the debug recorder threw    \* files in the debug directory
    pResult,      \* the AppleScriptResult returned
    \* ---- findAndExecuteScript ----
    lPc,          \* "ready" | "done"
    lInline,      \* [available, table]: the inlined scripts of scripts/index.ts
    lFiles,       \* script files in <pluginDir>/scripts
    lStatFails,   \* script files whose stat throws
    lContent,     \* the body of the stored source scripts
    lName,        \* scriptName
    lVars,        \* variables: [present, ctx]
    lArgs,        \* args: the positional script arguments of the call
    lSent,        \* the positional script arguments the interpreter was given
    lOut,         \* how the call ended
    \* ---- runAppleScript ----
    xPc,          \* "called" | "waiting" | "aborted" | "returned"
    xOptions,     \* options: [inline, timeout]
    xAborted,     \* controller.signal.aborted
    xKilled,      \* SIGTERM was sent to the osascript process
    xCode,        \* exit code of osascript
    xStderr,      \* stderr of osascript
    xError,       \* message of the exception thrown by spawn
    xOutcome,     \* which path returned
    xResult,      \* the AppleScriptResult returned
    \* ---- tool handlers ----
    mPc,          \* "starting" | "serving" | "responded"
    mEnv,         \* ENABLE_ARBITRARY_SCRIPTS
    mRegistered,  \* which run_script handler getTools registered
    mTool,        \* the tool of the last call
    mSpawned,     \* processes spawned by the last call, with their timeouts
    mResponse,    \* response of the last call
    \* ---- value conversion ----
    vPc,          \* "ready" | "done"
    vEntry,       \* the entry point used
    vValue,       \* the JavaScript value
    vOut,         \* [ok, error, text]: the rendered text or the thrown error
    \* ---- cleanupDebugFiles ----
    sPc,          \* "ready" | "done"
    sDirKind,     \* what debugDir is: "directory" | "file" | "missing"
    sFiles,       \* the files of the debug directory, in walk order
    sExecute,     \* options.execute (false for a dry run)
    sResult,      \* the CleanupResult, and the files removed from disk
    \* ---- parseSdefQuery ----
    qPc,          \* "ready" | "done"
    qParses,      \* does the XML parse?
    qDoc,         \* the parsed document: its top-level elements
    qQueries,     \* the query tokens, each split at ':'
    qResult,      \* [threw, items]
    qXml,         \* [threw, parts] of extractSdefQueryXml
    \* ---- concurrent runAppleScript invocations ----
    ivPc,         \* per invocation: "called" | "waiting" | "aborted" | "returned"
    ivAborted,    \* per controller: has abort() been called?
    ivKilled,     \* per process: was it sent SIGTERM?
    ivResult,     \* per invocation: the result returned
    \* ---- concurrent saveDebugScript calls ----
    dPc,          \* per call: "called" | "ensuring" | "script_written" | "returned"
    dSuccess,     \* per call: result.success
    dConfig,      \* getDebugConfig(): [enabled, saveAll]
    dStamp,       \* per call: the millisecond read for the file names
    dNow,         \* the clock, in milliseconds
    dWrites,      \* every write so far: [name, by]
    \* ---- renderTemplate on placeholder-like values ----
    gPc,          \* "ready" | "done"
    gTemplate,    \* the template
    gValue,       \* the string value of s
    gHasT,        \* is t a key of the context?
    gOut,         \* [ok, error, text]
    \* ---- read_dictionary: the resolve script ----
    aPc,          \* "called" | "built"
    aApplication, \* args.application
    aScript       \* resolveScript

timeoutVars == <<tPc, tReq, tDef, tMax, tOut>>
rendVars    == <<rPc, rEntry, rVal, rOut>>
classVars   == <<cPc, cText, cKind>>
pipeVars    == <<pPc, pSource, pTimeoutReq, pDebug, pFiles, pRemoveFails, pDiag,
                 pStderr, pOutcome, pSpawned, pDebugDir, pWriteFailed, pHangs, pResult>>
locVars     == <<lPc, lInline, lFiles, lStatFails, lContent, lName, lVars, lArgs, lSent,
                 lOut>>
runVars     == <<xPc, xOptions, xAborted, xKilled, xCode, xStderr, xError, xOutcome, xResult>>
toolVars    == <<mPc, mEnv, mRegistered, mTool, mSpawned, mResponse>>
convVars    == <<vPc, vEntry, vValue, vOut>>
sweepVars   == <<sPc, sDirKind, sFiles, sExecute, sResult>>
queryVars   == <<qPc, qParses, qDoc, qQueries, qResult, qXml>>
concVars    == <<ivPc, ivAborted, ivKilled, ivResult>>
recVars     == <<dPc, dSuccess, dConfig, dStamp, dNow, dWrites>>
passVars    == <<gPc, gTemplate, gValue, gHasT, gOut>>
appVars     == <<aPc, aApplication, aScript>>
vars        == <<timeoutVars, rendVars, classVars, pipeVars, locVars, runVars, toolVars, convVars,
                 sweepVars, queryVars, concVars, recVars, passVars,
                 appVars>>

----------------------------------------------------------------------------
(* Bounds *)
MaxDefault   == 3
MaxMax       == 4
MaxRequested == 7
MaxStrLen    == 3
MaxTextLen   == 2
MaxLines     == 7
MaxErrCol    == 2
MaxContext   == 2
MaxTableLen  == 2
MaxFiles     == 2
MaxItems     == 2
MaxSweepFiles == 3
MaxElements  == 2
MaxQueries   == 2
NumInvocations == 2
NumRecorders == 2
MaxClock     == 2
MaxValueLen  == 4

----------------------------------------------------------------------------
(* Generic helpers *)
Min(a, b) == IF a <= b THEN a ELSE b
Max(a, b) == IF a >= b THEN a ELSE b

SeqsUpTo(S, n) == UNION { [1..k -> S] : k \in 0..n }

----------------------------------------------------------------------------
(* validateTimeout *)

\* `timeout || defaultTimeout`: every falsy request (undefined, 0) takes the default
RequestedOrDefault(req, def) ==
    IF req.present /\ req.value # 0 THEN req.value ELSE def

\* `timeout ?? defaultTimeout`: only an absent request takes the default
RequestedOrDefaultNullish(req, def) ==
    IF req.present THEN req.value ELSE def

validateTimeoutNullish(req, def, max) == Min(RequestedOrDefaultNullish(req, def), max)

validateTimeout(req, def, max) == Min(RequestedOrDefault(req, def), max)

TimeoutRequests ==
    { [present |-> FALSE, value |-> 0] } \cup
    { [present |-> TRUE, value |-> v] : v \in 0..MaxRequested }

----------------------------------------------------------------------------
(* Template renderer (templateRenderer.ts) *)

DQ == "\""       \* the double-quote character
BS == "\\"       \* the backslash character

RECURSIVE Join(_, _)
Join(ss, sep) ==
    IF ss = <<>> THEN <<>>
    ELSE IF Len(ss) = 1 THEN ss[1]
    ELSE ss[1] \o sep \o Join(Tail(ss), sep)

\* String.prototype.replace(/c/g, rep): every occurrence of the character c
\* is replaced by the text rep, in one left-to-right pass
RECURSIVE ReplaceAll(_, _, _)
ReplaceAll(s, c, rep) ==
    IF s = <<>> THEN <<>>
    ELSE (IF Head(s) = c THEN rep ELSE <<Head(s)>>) \o ReplaceAll(Tail(s), c, rep)

\* Quotes escaped before backslashes: the backslash added for a quote is doubled
escapeQuotesFirst(value) ==
    <<DQ>> \o ReplaceAll(ReplaceAll(value, DQ, <<BS, DQ>>), BS, <<BS, BS>>) \o <<DQ>>

escapeAppleScriptString(value) ==
    <<DQ>> \o ReplaceAll(ReplaceAll(value, BS, <<BS, BS>>), DQ, <<BS, DQ>>) \o <<DQ>>

\* JavaScript values, one record shape for every type
StrV(s)      == [t |-> "string",    s |-> s,    n |-> 0, b |-> FALSE, keys |-> <<>>, items |-> <<>>]
NumV(n)      == [t |-> "number",    s |-> <<>>, n |-> n, b |-> FALSE, keys |-> <<>>, items |-> <<>>]
BoolV(b)     == [t |-> "boolean",   s |-> <<>>, n |-> 0, b |-> b,     keys |-> <<>>, items |-> <<>>]
NullV        == [t |-> "null",      s |-> <<>>, n |-> 0, b |-> FALSE, keys |-> <<>>, items |-> <<>>]
UndefinedV   == [t |-> "undefined", s |-> <<>>, n |-> 0, b |-> FALSE, keys |-> <<>>, items |-> <<>>]
FunctionV    == [t |-> "function",  s |-> <<>>, n |-> 0, b |-> FALSE, keys |-> <<>>, items |-> <<>>]
ListV(xs)    == [t |-> "list",      s |-> <<>>, n |-> 0, b |-> FALSE, keys |-> <<>>, items |-> xs]
RecV(ks, xs) == [t |-> "record",    s |-> <<>>, n |-> 0, b |-> FALSE, keys |-> ks,   items |-> xs]

\* String(value) for numbers and booleans; String(f) for an inherited function
StringOf(v) ==
    CASE v.t = "number"   -> <<ToString(v.n)>>
      [] v.t = "boolean"  -> <<IF v.b THEN "true" ELSE "false">>
      [] v.t = "function" -> <<"function () { [native code] }">>
      [] OTHER            -> <<"[object]">>

\* JSON.stringify(item): strings are quoted with backslash and quote escaped
RECURSIVE JSONStringify(_)
JSONStringify(v) ==
    CASE v.t = "string"  -> escapeAppleScriptString(v.s)
      [] v.t = "number"  -> StringOf(v)
      [] v.t = "boolean" -> StringOf(v)
      [] v.t = "list"    ->
            <<"[">> \o Join([i \in 1..Len(v.items) |->
                                IF v.items[i].t \in {"undefined", "function"}
                                THEN <<"null">> ELSE JSONStringify(v.items[i])], <<",">>)
                    \o <<"]">>
      [] v.t = "record"  ->
            LET keep == SelectSeq([i \in 1..Len(v.items) |-> i],
                                  LAMBDA i : v.items[i].t \notin {"undefined", "function"})
            IN <<"{">> \o Join([j \in 1..Len(keep) |->
                                   <<DQ, v.keys[keep[j]], DQ, ":">>
                                   \o JSONStringify(v.items[keep[j]])], <<",">>)
                       \o <<"}">>
      [] OTHER           -> <<"null">>

\* The literal of a value when every element of a list and every value of a
\* record is converted by the rules of a top-level value, at every depth
RECURSIVE RecursiveLiteral(_)
RecursiveLiteral(v) ==
    CASE v.t = "string"                -> escapeAppleScriptString(v.s)
      [] v.t \in {"number", "boolean"} -> StringOf(v)
      [] v.t \in {"null", "undefined"} -> <<"missing value">>
      [] v.t = "list"                  ->
            <<"{">> \o Join([i \in 1..Len(v.items) |-> RecursiveLiteral(v.items[i])],
                            <<",", " ">>) \o <<"}">>
      [] v.t = "record"                ->
            <<"{">> \o Join([i \in 1..Len(v.items) |->
                                <<v.keys[i], ":">> \o RecursiveLiteral(v.items[i])],
                            <<",", " ">>) \o <<"}">>
      [] OTHER                         -> escapeAppleScriptString(StringOf(v))

\* A list conversion that converts record elements to record literals
toAppleScriptListRecursive(arr) == RecursiveLiteral(ListV(arr))

RECURSIVE toAppleScriptList(_)
toAppleScriptList(arr) ==
    LET conv(item) ==
            CASE item.t = "string"                -> escapeAppleScriptString(item.s)
              [] item.t \in {"number", "boolean"} -> StringOf(item)
              [] item.t \in {"null", "undefined"} -> <<"missing value">>
              [] item.t = "list"                  -> toAppleScriptList(item.items)
              [] OTHER                            -> escapeAppleScriptString(JSONStringify(item))
    IN <<"{">> \o Join([i \in 1..Len(arr) |-> conv(arr[i])], <<",", " ">>) \o <<"}">>

RECURSIVE toAppleScriptRecord(_)
toAppleScriptRecord(obj) ==
    LET conv(value) ==
            CASE value.t = "string"                -> escapeAppleScriptString(value.s)
              [] value.t \in {"number", "boolean"} -> StringOf(value)
              [] value.t \in {"null", "undefined"} -> <<"missing value">>
              [] value.t = "list"                  -> toAppleScriptList(value.items)
              [] value.t = "record"                -> toAppleScriptRecord(value)
              [] OTHER                             -> escapeAppleScriptString(StringOf(value))
    IN <<"{">> \o Join([i \in 1..Len(obj.items) |->
                           <<obj.keys[i], ":">> \o conv(obj.items[i])], <<",", " ">>)
               \o <<"}">>

\* The conversion applied to one placeholder value by renderTemplate
RenderValue(value) ==
    CASE value.t = "list"                  -> toAppleScriptList(value.items)
      [] value.t = "record"                -> toAppleScriptRecord(value)
      [] value.t = "string"                -> escapeAppleScriptString(value.s)
      [] value.t \in {"number", "boolean"} -> StringOf(value)
      [] value.t = "null"                  -> <<"missing value">>
      [] OTHER                             -> escapeAppleScriptString(StringOf(value))

\* Property names every object literal inherits from Object.prototype
ObjectPrototypeKeys == { <<"constructor">> }

\* variables[key]: own property, else inherited property, else undefined.
\* A context is a function from names to values.
Lookup(variables, key) ==
    IF key \in DOMAIN variables THEN variables[key]
    ELSE IF key \in ObjectPrototypeKeys THEN FunctionV
    ELSE UndefinedV

\* variables[key] of an object without prototype: own properties only
LookupOwn(variables, key) ==
    IF key \in DOMAIN variables THEN variables[key] ELSE UndefinedV

\* String.prototype.trim() on a token sequence
RECURSIVE TrimLeft(_)
TrimLeft(s) == IF s # <<>> /\ Head(s) = " " THEN TrimLeft(Tail(s)) ELSE s
RECURSIVE TrimRight(_)
TrimRight(s) ==
    IF s # <<>> /\ s[Len(s)] = " " THEN TrimRight(SubSeq(s, 1, Len(s) - 1)) ELSE s
Trim(s) == TrimLeft(TrimRight(s))

\* Index of the first "}" of t at or after position i, 0 if none
RECURSIVE FirstClose(_, _)
FirstClose(t, i) ==
    IF i > Len(t) THEN 0 ELSE IF t[i] = "}" THEN i ELSE FirstClose(t, i + 1)

\* Does /\$\{([^}]+)\}/ match t at position i?  Returns the index of the
\* closing brace, 0 if there is no match starting at i.
PlaceholderAt(t, i) ==
    IF i + 3 <= Len(t) /\ t[i] = "$" /\ t[i + 1] = "{" /\ t[i + 2] # "}"
    THEN FirstClose(t, i + 3) ELSE 0

\* /\$\{[^}]+\}/.test(content)
hasTemplates(content) == \E i \in 1..Len(content) : PlaceholderAt(content, i) > 0

\* template.replace(/\$\{([^}]+)\}/g, callback): one left-to-right pass; the
\* callback throws at the first placeholder whose value is undefined.
\* Result: [ok, text] or [ok |-> FALSE, error, text].
RECURSIVE RenderFrom(_, _, _)
RenderFrom(t, i, variables) ==
    IF i > Len(t) THEN [ok |-> TRUE, error |-> "none", text |-> <<>>]
    ELSE LET j == PlaceholderAt(t, i) IN
         IF j = 0
         THEN LET rest == RenderFrom(t, i + 1, variables) IN
              IF rest.ok THEN [rest EXCEPT !.text = <<t[i]>> \o @] ELSE rest
         ELSE LET value == Lookup(variables, Trim(SubSeq(t, i + 2, j - 1))) IN
              IF value.t = "undefined"
              THEN [ok |-> FALSE, error |-> "Template variable is not defined",
                    text |-> <<>>]
              ELSE LET rest == RenderFrom(t, j + 1, variables) IN
                   IF rest.ok THEN [rest EXCEPT !.text = RenderValue(value) \o @]
                   ELSE rest

\* A renderer that scans the text it produced once more
renderTemplateRescanning(template, variables) ==
    LET first == RenderFrom(template, 1, variables) IN
    IF first.ok /\ hasTemplates(first.text)
    THEN RenderFrom(first.text, 1, variables)
    ELSE first

renderTemplate(template, variables) == RenderFrom(template, 1, variables)

\* The template "${s}"
TemplateS == <<"$", "{", "s", "}">>

\* The four ways a string value reaches the renderer
RenderEntries == {"escape", "template", "list", "record"}

RenderString(entry, value) ==
    CASE entry = "escape"   -> escapeAppleScriptString(value)
      [] entry = "template" ->
            renderTemplate(TemplateS, [k \in {<<"s">>} |-> StrV(value)]).text
      [] entry = "list"     -> toAppleScriptList(<<StrV(value)>>)
      [] OTHER              -> toAppleScriptRecord(RecV(<<"k">>, <<StrV(value)>>))

StrChars == {"a", "b", DQ, BS}

\* The conversion applied to one interpolated value by the script tag; an
\* undefined value contributes nothing
ScriptValue(value) ==
    CASE value.t = "undefined"             -> <<>>
      [] value.t = "list"                  -> toAppleScriptList(value.items)
      [] value.t = "record"                -> toAppleScriptRecord(value)
      [] value.t = "string"                -> escapeAppleScriptString(value.s)
      [] value.t \in {"number", "boolean"} -> StringOf(value)
      [] value.t = "null"                  -> <<"missing value">>
      [] OTHER                             -> escapeAppleScriptString(StringOf(value))

\* script(strings, ...values): strings.reduce over the literal parts; part i
\* is followed by the conversion of values[i] when there is one
RECURSIVE scriptFrom(_, _, _)
scriptFrom(strings, values, i) ==
    IF i > Len(strings) THEN <<>>
    ELSE strings[i]
         \o (IF i <= Len(values) THEN ScriptValue(values[i]) ELSE <<>>)
         \o scriptFrom(strings, values, i + 1)

script(strings, values) == scriptFrom(strings, values, 1)

\* JavaScript values of the model: scalars, and lists and records of up to
\* MaxItems entries, nested once
ScalarValues == { StrV(<<"a">>), NumV(1), BoolV(TRUE), NullV, UndefinedV }

KeysOfLen(n) == SubSeq(<<"k1", "k2", "k3", "k4">>, 1, n)

ListsOf(S, n)   == { ListV(xs) : xs \in SeqsUpTo(S, n) }
RecordsOf(S, n) == { RecV(KeysOfLen(Len(xs)), xs) : xs \in SeqsUpTo(S, n) }

InnerValues ==
    ScalarValues \cup ListsOf({NullV, StrV(<<"a">>)}, 1)
                 \cup RecordsOf({UndefinedV, NumV(1)}, 1)
                 \cup { ListV(<<RecV(<<"k1">>, <<NumV(1)>>)>>) }

JsValues == ScalarValues \cup ListsOf(InnerValues, MaxItems) \cup RecordsOf(InnerValues, MaxItems)

\* The two renderer entry points applied to one value: renderTemplate on the
\* template "${s}" with {s: value}, and script`${value}`
ConvertEntries == {"renderTemplate", "script"}

Convert(entry, value) ==
    IF entry = "renderTemplate"
    THEN renderTemplate(TemplateS, [k \in {<<"s">>} |-> value])
    ELSE [ok |-> TRUE, error |-> "none", text |-> script(<< <<>>, <<>> >>, <<value>>)]


----------------------------------------------------------------------------
(* Error classifier (errorHandler.ts) *)

PermissionPatterns == {"not authorized", "not allowed", "permission denied",
                       "operation not permitted"}
TimeoutPatterns    == {"timeout", "timed out"}
ScriptPatterns     == {"syntax error", "execution error", "expected",
                       "can't get", "can't make"}

\* String.prototype.toLowerCase() on one token
LowerToken(tok) ==
    CASE tok = "Not Authorized" -> "not authorized"
      [] tok = "Timed Out"      -> "timed out"
      [] tok = "Syntax Error"   -> "syntax error"
      [] tok = "Can't Get"      -> "can't get"
      [] OTHER                  -> tok

toLowerCase(text) == [i \in 1..Len(text) |-> LowerToken(text[i])]

\* text.includes(pattern) for a pattern that is one phrase token
Includes(text, pattern) == \E i \in 1..Len(text) : text[i] = pattern

IncludesAny(text, patterns) == \E p \in patterns : Includes(text, p)

\* The checks in another order: script patterns are tried before permission
parseScriptPatternsFirst(stderr) ==
    LET stderrLower == toLowerCase(stderr) IN
    IF IncludesAny(stderrLower, ScriptPatterns) THEN "script_error"
    ELSE IF IncludesAny(stderrLower, PermissionPatterns) THEN "permission"
    ELSE IF IncludesAny(stderrLower, TimeoutPatterns) THEN "timeout"
    ELSE "system_error"

parseAppleScriptError(stderr) ==
    LET stderrLower == toLowerCase(stderr) IN
    IF IncludesAny(stderrLower, PermissionPatterns) THEN "permission"
    ELSE IF IncludesAny(stderrLower, TimeoutPatterns) THEN "timeout"
    ELSE IF IncludesAny(stderrLower, ScriptPatterns) THEN "script_error"
    ELSE "system_error"

\* Words a diagnostic is made of: every pattern, some capitalised variants,
\* and words that match no pattern
DiagnosticWords ==
    PermissionPatterns \cup TimeoutPatterns \cup ScriptPatterns \cup
    {"Not Authorized", "Timed Out", "Syntax Error", "Can't Get", "unknown failure", "x"}

----------------------------------------------------------------------------
(* Numbers inside text *)

DigitChars == <<"0", "1", "2", "3", "4", "5", "6", "7", "8", "9">>

IsDigit(tok) == \E i \in 1..Len(DigitChars) : DigitChars[i] = tok

DigitVal(tok) == (CHOOSE i \in 1..Len(DigitChars) : DigitChars[i] = tok) - 1

\* Number.prototype.toString(): the decimal digits of n
RECURSIVE NumberText(_)
NumberText(n) ==
    IF n < 10 THEN <<DigitChars[n + 1]>>
    ELSE NumberText(n \div 10) \o <<DigitChars[(n % 10) + 1]>>

\* parseInt(digits, 10)
RECURSIVE ParseInt(_)
ParseInt(ds) ==
    IF ds = <<>> THEN 0
    ELSE 10 * ParseInt(SubSeq(ds, 1, Len(ds) - 1)) + DigitVal(ds[Len(ds)])

\* Index of the last token of the run of digits that starts at i (i - 1 if
\* t[i] is no digit)
RECURSIVE DigitRunEnd(_, _)
DigitRunEnd(t, i) ==
    IF i <= Len(t) /\ IsDigit(t[i]) THEN DigitRunEnd(t, i + 1) ELSE i - 1

----------------------------------------------------------------------------
(* Results (errorHandler.ts) *)

Absent == [present |-> FALSE, value |-> <<>>]
Present(v) == [present |-> TRUE, value |-> v]

\* /\d+:\d+:\s*(.+)/ tried at position i: the index where group 1 starts, 0 if
\* the pattern does not match at i.  The text is one line.
MessageMatchAt(t, i) ==
    LET e1 == DigitRunEnd(t, i) IN
    IF e1 < i \/ e1 + 1 > Len(t) \/ t[e1 + 1] # ":" THEN 0
    ELSE LET e2 == DigitRunEnd(t, e1 + 2) IN
         IF e2 < e1 + 2 \/ e2 + 1 > Len(t) \/ t[e2 + 1] # ":" THEN 0
         ELSE IF e2 + 2 <= Len(t) THEN e2 + 2 ELSE 0

extractErrorMessage(stderr) ==
    LET starts == { i \in 1..Len(stderr) : MessageMatchAt(stderr, i) > 0 } IN
    IF starts # {}
    THEN LET first == CHOOSE i \in starts : \A j \in starts : i <= j IN
         Trim(SubSeq(stderr, MessageMatchAt(stderr, first), Len(stderr)))
    ELSE stderr

generateErrorHint(errorType, message) ==
    CASE errorType = "permission"   -> "grant Automation permissions"
      [] errorType = "timeout"      -> "increase the timeout"
      [] errorType = "script_error" ->
            IF Includes(toLowerCase(message), "syntax error")
            THEN "check the syntax"
            ELSE IF Includes(toLowerCase(message), "can't get")
                    \/ Includes(toLowerCase(message), "can't make")
                 THEN "verify the object exists"
                 ELSE "review the script logic"
      [] errorType = "disabled"     -> "set ENABLE_ARBITRARY_SCRIPTS=true"
      [] errorType = "system_error" -> "check the application is installed"
      [] OTHER                      -> "review the error details"

\* error.details: the stderr text, then (compile failures) the script
\* context, then the path of the debug script, each appended when present
NoDetails == [present |-> FALSE, text |-> <<>>, context |-> <<>>, debugFile |-> <<>>]
DetailsText(text) ==
    [present |-> TRUE, text |-> text, context |-> <<>>, debugFile |-> <<>>]

NoError == [present |-> FALSE, type |-> "none", message |-> <<>>, hint |-> "none",
            code |-> Absent, details |-> NoDetails]

Metadata(scriptPath, timeoutUsed) ==
    [timeoutUsed |-> timeoutUsed, scriptPath |-> scriptPath]

\* A result that reports failure and success at once
createErrorResultSuccess(errorType, message, scriptPath, timeoutUsed, code, details) ==
    [success  |-> TRUE,
     result   |-> Absent,
     error    |-> [present |-> TRUE, type |-> errorType, message |-> message,
                   hint |-> generateErrorHint(errorType, message),
                   code |-> code, details |-> details],
     metadata |-> Metadata(scriptPath, timeoutUsed)]

createErrorResult(errorType, message, scriptPath, timeoutUsed, code, details) ==
    [success  |-> FALSE,
     result   |-> Absent,
     error    |-> [present |-> TRUE, type |-> errorType, message |-> message,
                   hint |-> generateErrorHint(errorType, message),
                   code |-> code, details |-> details],
     metadata |-> Metadata(scriptPath, timeoutUsed)]

createSuccessResult(result, scriptPath, timeoutUsed) ==
    [success  |-> TRUE,
     result   |-> Present(result),
     error    |-> NoError,
     metadata |-> Metadata(scriptPath, timeoutUsed)]

NoResult == [success |-> FALSE, result |-> Absent, error |-> NoError,
             metadata |-> Metadata(Absent, 0)]

----------------------------------------------------------------------------
(* Script runner (scriptRunner.ts) *)

DefaultTimeout == 30000
MaxTimeout     == 300000

\* validateTimeout with the environment variables unset
ValidatedTimeout(req) == validateTimeout(req, DefaultTimeout, MaxTimeout)

\* Exit code of a process ended by SIGTERM
SigtermExitCode == 143

TempFile == "tempFile.applescript"
TempScpt == "tempFile.applescript.scpt"

\* stderrText.match(/:([0-9]+):/): the first ":" followed by digits and ":".
\* [found, line] with line = parseInt(group 1).
LineMatch(t) ==
    LET hits == { i \in 1..Len(t) :
                    /\ t[i] = ":"
                    /\ DigitRunEnd(t, i + 1) >= i + 1
                    /\ DigitRunEnd(t, i + 1) + 1 <= Len(t)
                    /\ t[DigitRunEnd(t, i + 1) + 1] = ":" } IN
    IF hits = {} THEN [found |-> FALSE, line |-> 0]
    ELSE LET i == CHOOSE h \in hits : \A k \in hits : h <= k IN
         [found |-> TRUE, line |-> ParseInt(SubSeq(t, i + 1, DigitRunEnd(t, i + 1)))]

\* One line of the script context: marker, 1-based number, text of the line
getErrorContext(lines, errorLine, contextLines) ==
    LET startLine == Max(0, errorLine - contextLines - 1)
        endLine   == Min(Len(lines), errorLine + contextLines)
    IN [k \in 1..Max(0, endLine - startLine) |->
            [marked |-> (startLine + k - 1 = errorLine - 1),
             num    |-> startLine + k,
             line   |-> lines[startLine + k]]]

\* runAppleScript after the osascript process has completed
RunExitResult(code, stdout, stderr, scriptPath, timeout) ==
    IF code = 0
    THEN createSuccessResult(Trim(stdout), scriptPath, timeout)
    ELSE createErrorResult(parseAppleScriptError(Trim(stderr)),
                           extractErrorMessage(Trim(stderr)),
                           scriptPath, timeout,
                           Present(<<"ERR_SCRIPT_", ToString(code)>>),
                           DetailsText(Trim(stderr)))

\* runAppleScript when the abort signal ends the wait (AbortError)
RunTimeoutResult(scriptPath, timeout) ==
    createErrorResult("timeout",
                      <<"Script execution timed out after ", ToString(timeout), "ms">>,
                      scriptPath, timeout, Present(<<"ERR_TIMEOUT">>), NoDetails)

\* A system_error whose kind is taken from the words of the message
SystemErrorClassified(message, scriptPath, timeout) ==
    createErrorResult(parseAppleScriptError(message), message, scriptPath, timeout,
                      Present(<<"ERR_SYSTEM">>), DetailsText(<<"stack">>))

\* The outer catch of runAppleScript and of compileAndRun
SystemErrorResult(message, scriptPath, timeout) ==
    createErrorResult("system_error", message, scriptPath, timeout,
                      Present(<<"ERR_SYSTEM">>), DetailsText(<<"stack">>))

\* A compile failure whose kind is taken from the classifier
CompileFailureClassified(stderrRaw, source, validatedTimeout, contextLines) ==
    LET stderrText == Trim(stderrRaw)
        lineMatch  == LineMatch(stderrText)
        details    == IF lineMatch.found /\ lineMatch.line # 0 /\ contextLines > 0
                      THEN [DetailsText(stderrText) EXCEPT
                               !.context = getErrorContext(source, lineMatch.line,
                                                           contextLines)]
                      ELSE DetailsText(stderrText)
    IN createErrorResult(parseAppleScriptError(stderrText),
                         <<"Compilation failed: ">> \o extractErrorMessage(stderrText),
                         Absent, validatedTimeout, Present(<<"ERR_COMPILE">>), details)

\* compileAndRun when osacompile exits nonzero, before the debug script is saved
CompileFailureResult(stderrRaw, source, validatedTimeout, contextLines) ==
    LET stderrText == Trim(stderrRaw)
        lineMatch  == LineMatch(stderrText)
        details    == IF lineMatch.found /\ lineMatch.line # 0 /\ contextLines > 0
                      THEN [DetailsText(stderrText) EXCEPT
                               !.context = getErrorContext(source, lineMatch.line,
                                                           contextLines)]
                      ELSE DetailsText(stderrText)
    IN createErrorResult("script_error",
                         <<"Compilation failed: ">> \o extractErrorMessage(stderrText),
                         Absent, validatedTimeout, Present(<<"ERR_COMPILE">>), details)

\* Name of a debug file: timestamp, status, extension
DebugFileName(status, ext) == <<"timestamp", status, ext>>

\* A policy without the master switch
DebugAdmitsWithoutSwitch(result, config) == config.saveAll \/ ~result.success

\* saveDebugScript: does the policy admit the result?
DebugAdmits(result, config) ==
    config.enabled /\ (config.saveAll \/ ~result.success)

\* saveDebugScript: [saved, file, dir].  writeFails: ensureDir or a write throws.
saveDebugScript(result, config, dir, writeFails) ==
    LET status == IF result.success THEN "success" ELSE "failed" IN
    IF ~DebugAdmits(result, config) \/ writeFails
    THEN [saved |-> FALSE, file |-> <<>>, dir |-> dir]
    ELSE [saved |-> TRUE,
          file  |-> DebugFileName(status, "applescript"),
          dir   |-> dir \cup {DebugFileName(status, "applescript"),
                              DebugFileName(status, "json")}]

\* `result.error.details = details + "Debug script saved to: " + debugFile`
\* (compile failure: whenever a file was saved and the result has an error)
AppendDebugFile(result, saved) ==
    IF saved.saved /\ result.error.present
    THEN [result EXCEPT !.error.details.present = TRUE,
                        !.error.details.debugFile = saved.file]
    ELSE result

\* (after the run: only for failures)
AppendDebugFileAfterRun(result, saved) ==
    IF saved.saved /\ ~result.success /\ result.error.present
    THEN [result EXCEPT !.error.details.present = TRUE,
                        !.error.details.debugFile = saved.file]
    ELSE result

\* The finally block: remove(tempFile) then remove(tempFile + '.scpt') inside
\* one try; the first removal that throws ends the block.
Cleanup(files, fails) ==
    IF TempFile \notin files \/ TempFile \in fails THEN files
    ELSE IF TempScpt \notin files \/ TempScpt \in fails THEN files \ {TempFile}
    ELSE files \ {TempFile, TempScpt}

\* What the compiler writes to stderr for a diagnostic
DiagText(d) ==
    CASE d.form = "linecol"  ->
            NumberText(d.line) \o <<":">> \o NumberText(d.col)
                \o <<":", " ", d.phrase, ":", " ", "x">>
      [] d.form = "pathline" ->
            <<"temp.applescript", ":">> \o NumberText(d.line)
                \o <<":", " ", "error", ":", " ", d.phrase>>
      [] OTHER               -> <<d.phrase>>

CompilerPhrases == {"syntax error", "not authorized", "unknown failure"}

\* Diagnostics a compiler can report for a source of n lines
Diagnostics(n) ==
    { [form |-> "linecol", line |-> l, col |-> c, phrase |-> ph] :
          l \in 1..n, c \in 1..MaxErrCol, ph \in CompilerPhrases } \cup
    { [form |-> "pathline", line |-> l, col |-> 0, phrase |-> ph] :
          l \in 1..n, ph \in CompilerPhrases } \cup
    { [form |-> "plain", line |-> 0, col |-> 0, phrase |-> ph] : ph \in CompilerPhrases }

NoDiag == [form |-> "none", line |-> 0, col |-> 0, phrase |-> "none"]

\* Messages of exceptions thrown by file and process operations
ExceptionMessages == { <<"No such file or directory">>, <<"permission denied">> }

\* stderr of a failed run
RunDiagnostics == { <<"3", ":", "1", ":", " ", "not authorized">>,
                    <<"execution error", ":", " ", "can't get">>,
                    <<"unknown failure">> }

----------------------------------------------------------------------------
(* Script loader (scriptLoader.ts) *)

\* A script path relative to <pluginDir>/scripts: directory segments, base
\* name, extensions.  "finder/reveal.applescript" is
\* [dir |-> <<"finder">>, base |-> "reveal", ext |-> <<"applescript">>].
\* A logical name is written the same way, usually with ext = <<>>.
Key(dir, base, ext) == [dir |-> dir, base |-> base, ext |-> ext]
NoKey == Key(<<>>, "", <<>>)

\* A directory segment that contains a dot (a name with extension used as a
\* directory); no stored script lives under one
DottedSegment == "<name.ext>"

SourceExt   == <<"applescript">>
CompiledExt == <<"scpt">>

\* path.endsWith('.scpt')
IsCompiledPath(key) == key.ext # <<>> /\ key.ext[Len(key.ext)] = "scpt"

\* The entry the build step stores for a script file
InlinedEntry(key, content) ==
    IF IsCompiledPath(key) THEN [type |-> "binary", content |-> <<"base64">>]
    ELSE [type |-> "text", content |-> content]

\* key.endsWith("/" + scriptName + suffix) for suffix "", ".applescript", ".scpt"
EndsWithName(key, name) ==
    /\ Len(key.dir) > Len(name.dir)
    /\ SubSeq(key.dir, Len(key.dir) - Len(name.dir) + 1, Len(key.dir)) = name.dir
    /\ key.base = name.base
    /\ \/ key.ext = name.ext
       \/ key.ext = name.ext \o SourceExt
       \/ key.ext = name.ext \o CompiledExt

FirstIn(S) == CHOOSE i \in S : \A j \in S : i <= j

\* executeFromInlinedScripts, lines 204-237: the key the name resolves to in
\* the table (a sequence of keys in insertion order), NoKey if none
InlineResolve(name, table) ==
    LET has(k)  == \E i \in 1..Len(table) : table[i] = k
        byExt   == IF has(Key(name.dir, name.base, SourceExt))
                   THEN Key(name.dir, name.base, SourceExt)
                   ELSE IF has(Key(name.dir, name.base, CompiledExt))
                        THEN Key(name.dir, name.base, CompiledExt)
                        ELSE NoKey
        nested  == { i \in 1..Len(table) : EndsWithName(table[i], name) }
    IN IF has(name) THEN name
       ELSE IF name.ext = <<>> /\ byExt # NoKey THEN byExt
       ELSE IF nested # {} THEN table[FirstIn(nested)]
       ELSE NoKey

\* Candidate paths with the source form probed before the compiled form
CandidatesSourceFirst(name) ==
    LET nameDir == IF name.ext = <<>> THEN name.dir \o <<name.base>>
                   ELSE name.dir \o <<DottedSegment>>
    IN << Key(name.dir, name.base, name.ext \o SourceExt),
          Key(name.dir, name.base, name.ext \o CompiledExt),
          Key(nameDir \o name.dir, name.base, name.ext \o SourceExt),
          Key(nameDir \o name.dir, name.base, name.ext \o CompiledExt) >>

\* findScriptInPlugin: the candidate paths, in probing order
Candidates(name) ==
    LET nameDir == IF name.ext = <<>> THEN name.dir \o <<name.base>>
                   ELSE name.dir \o <<DottedSegment>>
    IN << Key(name.dir, name.base, name.ext \o CompiledExt),
          Key(name.dir, name.base, name.ext \o SourceExt),
          Key(nameDir \o name.dir, name.base, name.ext \o CompiledExt),
          Key(nameDir \o name.dir, name.base, name.ext \o SourceExt) >>

\* findScriptInPlugin: the first candidate whose stat succeeds and is a file;
\* a stat that throws is swallowed.  NoKey stands for the returned null.
findScriptInPlugin(name, files, statFails) ==
    LET cands == Candidates(name)
        hits  == { i \in 1..Len(cands) : cands[i] \in files /\ cands[i] \notin statFails }
    IN IF hits = {} THEN NoKey ELSE cands[FirstIn(hits)]

\* What a findAndExecuteScript call ends in
Threw(err, strategy, key) ==
    [kind |-> "threw", error |-> err, strategy |-> strategy, key |-> key,
     called |-> "none", text |-> <<>>]
Executed(strategy, key, called, text) ==
    [kind |-> "executed", error |-> "none", strategy |-> strategy, key |-> key,
     called |-> called, text |-> text]
NoOutcome ==
    [kind |-> "none", error |-> "none", strategy |-> "none", key |-> NoKey,
     called |-> "none", text |-> <<>>]
\* A not-found signal that is returned
NotFoundReturned(strategy) ==
    [kind |-> "not_found", error |-> "none", strategy |-> strategy, key |-> NoKey,
     called |-> "none", text |-> <<>>]

\* Render, then compileAndRun; renderTemplate's throw propagates
RenderAndRun(strategy, key, content, variables) ==
    LET rendered == renderTemplate(content, variables.ctx) IN
    IF rendered.ok THEN Executed(strategy, key, "compileAndRun", rendered.text)
    ELSE Threw(rendered.error, strategy, key)

\* executeTextInlinedScript
executeTextInlinedScript(key, content, variables) ==
    IF hasTemplates(content) /\ variables.present
    THEN RenderAndRun("inline", key, content, variables)
    ELSE IF hasTemplates(content)
         THEN Threw("Template variables required", "inline", key)
         ELSE Executed("inline", key, "compileAndRun", content)

\* A table lookup that returns a not-found signal instead of throwing
executeFromInlinedScriptsNotFoundReturned(name, table, content, variables) ==
    LET key == InlineResolve(name, table) IN
    IF key = NoKey THEN NotFoundReturned("inline")
    ELSE IF InlinedEntry(key, content).type = "binary"
         THEN Executed("inline", key, "runAppleScript", <<>>)
         ELSE executeTextInlinedScript(key, InlinedEntry(key, content).content, variables)

\* executeFromInlinedScripts (and executeCompiledInlinedScript for binaries)
executeFromInlinedScripts(name, table, content, variables) ==
    LET key == InlineResolve(name, table) IN
    IF key = NoKey THEN Threw("Inlined script not found", "inline", NoKey)
    ELSE IF InlinedEntry(key, content).type = "binary"
         THEN Executed("inline", key, "runAppleScript", <<>>)
         ELSE executeTextInlinedScript(key, InlinedEntry(key, content).content, variables)

\* loadScript + executeScript on a path that findScriptInPlugin returned
loadAndExecuteScript(key, content, variables) ==
    IF IsCompiledPath(key) THEN Executed("file", key, "runAppleScript", <<>>)
    ELSE IF hasTemplates(content) /\ content # <<>>
         THEN IF ~variables.present
              THEN Threw("Template variables required", "file", key)
              ELSE RenderAndRun("file", key, content, variables)
         ELSE Executed("file", key, "runAppleScript", <<>>)

\* The scripts directory is searched whenever the table has no match
findAndExecuteScriptFallsBack(inline, files, statFails, name, content, variables) ==
    IF inline.available /\ InlineResolve(name, inline.table) # NoKey
    THEN executeFromInlinedScripts(name, inline.table, content, variables)
    ELSE LET scriptPath == findScriptInPlugin(name, files, statFails) IN
         IF scriptPath = NoKey THEN Threw("Script not found", "file", NoKey)
         ELSE loadAndExecuteScript(scriptPath, content, variables)

\* findAndExecuteScript.  inline = [available, table]: available is false when
\* scripts/index.ts is missing, fails to load or exports no table.
findAndExecuteScript(inline, files, statFails, name, content, variables) ==
    IF inline.available
    THEN executeFromInlinedScripts(name, inline.table, content, variables)
    ELSE LET scriptPath == findScriptInPlugin(name, files, statFails) IN
         IF scriptPath = NoKey THEN Threw("Script not found", "file", NoKey)
         ELSE loadAndExecuteScript(scriptPath, content, variables)

\* The positional script arguments that reach osascript: runAppleScript
\* appends options.args after the script; compileAndRun takes no args and
\* runs the compiled script with none
ScriptArguments(outcome, args) ==
    IF outcome.kind = "executed" /\ outcome.called = "runAppleScript" THEN args ELSE <<>>

ScriptArgLists == { <<>>, <<"arg">> }

\* Stored scripts, logical names, script bodies and contexts of the model
StoredKeys ==
    { Key(<<>>, "a", SourceExt), Key(<<>>, "a", CompiledExt),
      Key(<<"sub">>, "a", SourceExt), Key(<<"a">>, "a", SourceExt),
      Key(<<>>, "b", SourceExt) }

ScriptNames ==
    { Key(<<>>, "a", <<>>), Key(<<>>, "b", <<>>), Key(<<>>, "c", <<>>),
      Key(<<>>, "a", CompiledExt) }

ScriptBodies ==
    { <<"beep">>,
      <<"say", " ", "$", "{", "s", "}">>,
      <<"say", " ", "$", "{", " ", "missing", " ", "}">>,
      <<"say", " ", "$", "{", "constructor", "}">> }

Contexts ==
    { [present |-> FALSE, ctx |-> <<>>],
      [present |-> TRUE,  ctx |-> <<>>],
      [present |-> TRUE,  ctx |-> [k \in {<<"s">>} |-> StrV(<<"v">>)]] }

NoDuplicates(seq) == \A i, j \in 1..Len(seq) : i # j => seq[i] # seq[j]

InlineTables ==
    { [available |-> FALSE, table |-> <<>>] } \cup
    { [available |-> TRUE, table |-> t] :
        t \in { s \in SeqsUpTo(StoredKeys, MaxTableLen) : NoDuplicates(s) } }

FileSets == { F \in SUBSET StoredKeys : Cardinality(F) <= MaxFiles }

\* The names ${...} of a script body, as renderTemplate's scan finds them
RECURSIVE PlaceholderNamesFrom(_, _)
PlaceholderNamesFrom(t, i) ==
    IF i > Len(t) THEN {}
    ELSE LET j == PlaceholderAt(t, i) IN
         IF j = 0 THEN PlaceholderNamesFrom(t, i + 1)
         ELSE {Trim(SubSeq(t, i + 2, j - 1))} \cup PlaceholderNamesFrom(t, j + 1)

----------------------------------------------------------------------------
(* Specifications of the pure functions *)

IdleTimeout == tPc = "idle" /\ tReq = [present |-> FALSE, value |-> 0]
               /\ tDef = 1 /\ tMax = 1 /\ tOut = 0
IdleRend    == rPc = "idle" /\ rEntry = "none" /\ rVal = <<>> /\ rOut = <<>>
IdleClass   == cPc = "idle" /\ cText = <<>> /\ cKind = "none"
IdleLoc ==
    /\ lPc = "idle" /\ lInline = [available |-> FALSE, table |-> <<>>] /\ lFiles = {}
    /\ lStatFails = {} /\ lContent = <<>> /\ lName = NoKey
    /\ lVars = [present |-> FALSE, ctx |-> <<>>] /\ lOut = NoOutcome
    /\ lArgs = <<>> /\ lSent = <<>>
IdlePipe ==
    /\ pPc = "idle" /\ pSource = <<>> /\ pTimeoutReq = [present |-> FALSE, value |-> 0]
    /\ pDebug = [enabled |-> FALSE, saveAll |-> FALSE, contextLines |-> 0]
    /\ pFiles = {} /\ pRemoveFails = {} /\ pDiag = NoDiag /\ pStderr = <<>>
    /\ pOutcome = "none" /\ pSpawned = <<>> /\ pDebugDir = {} /\ pResult = NoResult
    /\ pWriteFailed = FALSE /\ pHangs = {}

\* No tool response yet
NoResponse == [isError |-> FALSE, kind |-> "none", result |-> NoResult]

IdleTools ==
    /\ mPc = "idle" /\ mEnv = [present |-> FALSE, value |-> ""] /\ mRegistered = "none"
    /\ mTool = "none" /\ mSpawned = <<>> /\ mResponse = NoResponse

\* Nothing converted yet
NoConversion == [ok |-> FALSE, error |-> "none", text |-> <<>>]

IdleConvert ==
    /\ vPc = "idle" /\ vEntry = "none" /\ vValue = NullV /\ vOut = NoConversion

\* The CleanupResult before the walk, with the set of files removed from disk
EmptyCleanupResult ==
    [found |-> 0, deleted |-> 0, bytesFreed |-> 0, deletedFiles |-> <<>>, removed |-> {}]

IdleSweep ==
    /\ sPc = "idle" /\ sDirKind = "missing" /\ sFiles = <<>> /\ sExecute = FALSE
    /\ sResult = EmptyCleanupResult

\* parseSdefQuery has not returned
NoQueryResult == [threw |-> FALSE, items |-> <<>>]

\* extractSdefQueryXml has not returned
NoXml == [threw |-> FALSE, parts |-> <<[kind |-> "none", query |-> <<>>, el |-> 0]>>]

IdleQuery ==
    /\ qPc = "idle" /\ qParses = FALSE /\ qDoc = <<>> /\ qQueries = <<>>
    /\ qResult = NoQueryResult /\ qXml = NoXml

IdleConcurrent ==
    /\ ivPc = <<>> /\ ivAborted = <<>> /\ ivKilled = <<>> /\ ivResult = <<>>

IdleRecorders ==
    /\ dPc = <<>> /\ dSuccess = <<>> /\ dStamp = <<>> /\ dNow = 0 /\ dWrites = {}
    /\ dConfig = [enabled |-> FALSE, saveAll |-> FALSE]

IdleSinglePass ==
    /\ gPc = "idle" /\ gTemplate = <<>> /\ gValue = <<>> /\ gHasT = FALSE
    /\ gOut = [ok |-> FALSE, error |-> "none", text |-> <<>>]

IdleResolve == aPc = "idle" /\ aApplication = <<>> /\ aScript = <<>>

IdleRun ==
    /\ xPc = "idle" /\ xOptions = [inline |-> FALSE, timeout |-> [present |-> FALSE, value |-> 0]]
    /\ xAborted = FALSE /\ xKilled = FALSE /\ xCode = 0 /\ xStderr = <<>> /\ xError = <<>>
    /\ xOutcome = "none" /\ xResult = NoResult

\* For each specification: the variables of the other components, and the
\* predicate that keeps them at rest
otherThanTimeout == <<rendVars, classVars, pipeVars, locVars, runVars, toolVars, convVars, sweepVars, queryVars, concVars, recVars, passVars, appVars>>
IdleOtherThanTimeout ==
    IdleRend /\ IdleClass /\ IdlePipe /\ IdleLoc /\ IdleRun /\ IdleTools /\ IdleConvert /\ IdleSweep /\ IdleQuery /\ IdleConcurrent /\ IdleRecorders /\ IdleSinglePass /\ IdleResolve
otherThanRender == <<timeoutVars, classVars, pipeVars, locVars, runVars, toolVars, convVars, sweepVars, queryVars, concVars, recVars, passVars, appVars>>
IdleOtherThanRender ==
    IdleTimeout /\ IdleClass /\ IdlePipe /\ IdleLoc /\ IdleRun /\ IdleTools /\ IdleConvert /\ IdleSweep /\ IdleQuery /\ IdleConcurrent /\ IdleRecorders /\ IdleSinglePass /\ IdleResolve
otherThanClassify == <<timeoutVars, rendVars, pipeVars, locVars, runVars, toolVars, convVars, sweepVars, queryVars, concVars, recVars, passVars, appVars>>
IdleOtherThanClassify ==
    IdleTimeout /\ IdleRend /\ IdlePipe /\ IdleLoc /\ IdleRun /\ IdleTools /\ IdleConvert /\ IdleSweep /\ IdleQuery /\ IdleConcurrent /\ IdleRecorders /\ IdleSinglePass /\ IdleResolve
otherThanPipe == <<timeoutVars, rendVars, classVars, locVars, runVars, toolVars, convVars, sweepVars, queryVars, concVars, recVars, passVars, appVars>>
IdleOtherThanPipe ==
    IdleTimeout /\ IdleRend /\ IdleClass /\ IdleLoc /\ IdleRun /\ IdleTools /\ IdleConvert /\ IdleSweep /\ IdleQuery /\ IdleConcurrent /\ IdleRecorders /\ IdleSinglePass /\ IdleResolve
otherThanLocate == <<timeoutVars, rendVars, classVars, pipeVars, runVars, toolVars, convVars, sweepVars, queryVars, concVars, recVars, passVars, appVars>>
IdleOtherThanLocate ==
    IdleTimeout /\ IdleRend /\ IdleClass /\ IdlePipe /\ IdleRun /\ IdleTools /\ IdleConvert /\ IdleSweep /\ IdleQuery /\ IdleConcurrent /\ IdleRecorders /\ IdleSinglePass /\ IdleResolve
otherThanRun == <<timeoutVars, rendVars, classVars, pipeVars, locVars, toolVars, convVars, sweepVars, queryVars, concVars, recVars, passVars, appVars>>
IdleOtherThanRun ==
    IdleTimeout /\ IdleRend /\ IdleClass /\ IdlePipe /\ IdleLoc /\ IdleTools /\ IdleConvert /\ IdleSweep /\ IdleQuery /\ IdleConcurrent /\ IdleRecorders /\ IdleSinglePass /\ IdleResolve
otherThanTools == <<timeoutVars, rendVars, classVars, pipeVars, locVars, runVars, convVars, sweepVars, queryVars, concVars, recVars, passVars, appVars>>
IdleOtherThanTools ==
    IdleTimeout /\ IdleRend /\ IdleClass /\ IdlePipe /\ IdleLoc /\ IdleRun /\ IdleConvert /\ IdleSweep /\ IdleQuery /\ IdleConcurrent /\ IdleRecorders /\ IdleSinglePass /\ IdleResolve
otherThanConvert == <<timeoutVars, rendVars, classVars, pipeVars, locVars, runVars, toolVars, sweepVars, queryVars, concVars, recVars, passVars, appVars>>
IdleOtherThanConvert ==
    IdleTimeout /\ IdleRend /\ IdleClass /\ IdlePipe /\ IdleLoc /\ IdleRun /\ IdleTools /\ IdleSweep /\ IdleQuery /\ IdleConcurrent /\ IdleRecorders /\ IdleSinglePass /\ IdleResolve
otherThanSweep == <<timeoutVars, rendVars, classVars, pipeVars, locVars, runVars, toolVars, convVars, queryVars, concVars, recVars, passVars, appVars>>
IdleOtherThanSweep ==
    IdleTimeout /\ IdleRend /\ IdleClass /\ IdlePipe /\ IdleLoc /\ IdleRun /\ IdleTools /\ IdleConvert /\ IdleQuery /\ IdleConcurrent /\ IdleRecorders /\ IdleSinglePass /\ IdleResolve
otherThanQuery == <<timeoutVars, rendVars, classVars, pipeVars, locVars, runVars, toolVars, convVars, sweepVars, concVars, recVars, passVars, appVars>>
IdleOtherThanQuery ==
    IdleTimeout /\ IdleRend /\ IdleClass /\ IdlePipe /\ IdleLoc /\ IdleRun /\ IdleTools /\ IdleConvert /\ IdleSweep /\ IdleConcurrent /\ IdleRecorders /\ IdleSinglePass /\ IdleResolve
otherThanConcurrent == <<timeoutVars, rendVars, classVars, pipeVars, locVars, runVars, toolVars, convVars, sweepVars, queryVars, recVars, passVars, appVars>>
IdleOtherThanConcurrent ==
    IdleTimeout /\ IdleRend /\ IdleClass /\ IdlePipe /\ IdleLoc /\ IdleRun /\ IdleTools /\ IdleConvert /\ IdleSweep /\ IdleQuery /\ IdleRecorders /\ IdleSinglePass /\ IdleResolve
otherThanRecorders == <<timeoutVars, rendVars, classVars, pipeVars, locVars, runVars, toolVars, convVars, sweepVars, queryVars, concVars, passVars, appVars>>
IdleOtherThanRecorders ==
    IdleTimeout /\ IdleRend /\ IdleClass /\ IdlePipe /\ IdleLoc /\ IdleRun /\ IdleTools /\ IdleConvert /\ IdleSweep /\ IdleQuery /\ IdleConcurrent /\ IdleSinglePass /\ IdleResolve
otherThanSinglePass == <<timeoutVars, rendVars, classVars, pipeVars, locVars, runVars, toolVars, convVars, sweepVars, queryVars, concVars, recVars, appVars>>
IdleOtherThanSinglePass ==
    IdleTimeout /\ IdleRend /\ IdleClass /\ IdlePipe /\ IdleLoc /\ IdleRun /\ IdleTools /\ IdleConvert /\ IdleSweep /\ IdleQuery /\ IdleConcurrent /\ IdleRecorders /\ IdleResolve
otherThanResolve == <<timeoutVars, rendVars, classVars, pipeVars, locVars, runVars, toolVars, convVars, sweepVars, queryVars, concVars, recVars, passVars>>
IdleOtherThanResolve ==
    IdleTimeout /\ IdleRend /\ IdleClass /\ IdlePipe /\ IdleLoc /\ IdleRun /\ IdleTools /\ IdleConvert /\ IdleSweep /\ IdleQuery /\ IdleConcurrent /\ IdleRecorders /\ IdleSinglePass

InitTimeout ==
    /\ tPc = "ready"
    /\ tReq \in TimeoutRequests
    /\ tDef \in 1..MaxDefault
    /\ tMax \in 1..MaxMax
    /\ tOut = 0
    /\ IdleOtherThanTimeout

ValidateTimeout ==
    /\ tPc = "ready"
    /\ tOut' = validateTimeout(tReq, tDef, tMax)
    /\ tPc' = "done"
    /\ UNCHANGED <<tReq, tDef, tMax, otherThanTimeout>>

NextTimeout == ValidateTimeout

SpecTimeout == InitTimeout /\ [][NextTimeout]_vars

\* C1 (as stated): validateTimeout(requested) = min(requested ?? default, max)
\* for every requested value, 0 included: the default is substituted only
\* when the request is absent.
C1_Original ==
    tPc = "done" =>
        tOut = Min(IF tReq.present THEN tReq.value ELSE tDef, tMax)

\* C1 (amended): the default is substituted when the request is absent or 0;
\* every other request is used as given; the result is then clamped to max.
C1_Timeout ==
    tPc = "done" =>
        /\ (tReq.present /\ tReq.value > 0) => tOut = Min(tReq.value, tMax)
        /\ (~tReq.present \/ tReq.value = 0) => tOut = Min(tDef, tMax)

C1_Witness ==
    /\ tPc = "done" /\ tReq.present /\ tReq.value = 0 /\ tOut = Min(tDef, tMax)
    /\ tDef < tMax

InitRender ==
    /\ rPc = "ready"
    /\ rEntry \in RenderEntries
    /\ rVal \in SeqsUpTo(StrChars, MaxStrLen)
    /\ rOut = <<>>
    /\ IdleOtherThanRender

Render ==
    /\ rPc = "ready"
    /\ rOut' = RenderString(rEntry, rVal)
    /\ rPc' = "done"
    /\ UNCHANGED <<rEntry, rVal, otherThanRender>>

NextRender == Render

SpecRender == InitRender /\ [][NextRender]_vars

\* The string literal inside the text an entry point produced
LiteralOf(entry, out) ==
    CASE entry = "list"   -> SubSeq(out, 2, Len(out) - 1)
      [] entry = "record" -> SubSeq(out, 4, Len(out) - 1)
      [] OTHER            -> out

\* Reading s from position i: every backslash starts an escape pair (\\ or \")
\* and no quote stands outside a pair
RECURSIVE EscapedFrom(_, _)
EscapedFrom(s, i) ==
    IF i > Len(s) THEN TRUE
    ELSE IF s[i] = BS
         THEN i + 1 <= Len(s) /\ s[i + 1] \in {BS, DQ} /\ EscapedFrom(s, i + 2)
    ELSE IF s[i] = DQ THEN FALSE
    ELSE EscapedFrom(s, i + 1)

WellEscapedLiteral(lit) ==
    /\ Len(lit) >= 2
    /\ lit[1] = DQ
    /\ lit[Len(lit)] = DQ
    /\ EscapedFrom(SubSeq(lit, 2, Len(lit) - 1), 1)

\* C5: the literal produced by one pass through the renderer has, between its
\* enclosing quotes, no unescaped quote and no backslash outside an escape
\* pair; rendering `${s}` with s = a"b yields "a\"b".
C5_Escaped ==
    rPc = "done" =>
        /\ WellEscapedLiteral(LiteralOf(rEntry, rOut))
        /\ (rEntry = "template" /\ rVal = <<"a", DQ, "b">>)
               => rOut = <<DQ, "a", BS, DQ, "b", DQ>>

C5_Witness ==
    /\ rPc = "done"
    /\ rEntry = "template"
    /\ rVal = <<"a", DQ, "b">>
    /\ rOut = <<DQ, "a", BS, DQ, "b", DQ>>

InitClassify ==
    /\ cPc = "ready"
    /\ cText \in SeqsUpTo(DiagnosticWords, MaxTextLen)
    /\ cKind = "none"
    /\ IdleOtherThanClassify

Classify ==
    /\ cPc = "ready"
    /\ cKind' = parseAppleScriptError(cText)
    /\ cPc' = "done"
    /\ UNCHANGED <<cText, otherThanClassify>>

NextClassify == Classify

SpecClassify == InitClassify /\ [][NextClassify]_vars

\* Does the lowercased diagnostic contain one of the patterns?
Mentions(text, patterns) ==
    \E i \in 1..Len(text) : LowerToken(text[i]) \in patterns

\* C8: the rules are applied in a fixed order over the lowercased text and the
\* first matching rule wins: permission, then timeout, then script_error,
\* otherwise system_error; a text with both "not authorized" and "syntax
\* error" is classified permission.
C8_Precedence ==
    cPc = "done" =>
        /\ Mentions(cText, PermissionPatterns) => cKind = "permission"
        /\ (~Mentions(cText, PermissionPatterns) /\ Mentions(cText, TimeoutPatterns))
               => cKind = "timeout"
        /\ (/\ ~Mentions(cText, PermissionPatterns)
            /\ ~Mentions(cText, TimeoutPatterns)
            /\ Mentions(cText, ScriptPatterns)) => cKind = "script_error"
        /\ (~Mentions(cText, PermissionPatterns \cup TimeoutPatterns \cup ScriptPatterns))
               => cKind = "system_error"

C8_Witness ==
    /\ cPc = "done"
    /\ cText = <<"Syntax Error", "Not Authorized">>
    /\ cKind = "permission"

----------------------------------------------------------------------------
(* compileAndRun as a state machine *)

PipelineTimeouts ==
    { [present |-> FALSE, value |-> 0], [present |-> TRUE, value |-> 0],
      [present |-> TRUE, value |-> 5000], [present |-> TRUE, value |-> 999999999] }

InitPipeline ==
    /\ pPc = "called"
    /\ pSource \in { [i \in 1..n |-> i] : n \in 1..MaxLines }
    /\ pTimeoutReq \in PipelineTimeouts
    /\ pDebug \in [enabled : BOOLEAN, saveAll : BOOLEAN, contextLines : 0..MaxContext]
    /\ pFiles = {} /\ pRemoveFails = {} /\ pDiag = NoDiag /\ pStderr = <<>>
    /\ pOutcome = "none" /\ pSpawned = <<>> /\ pDebugDir = {} /\ pResult = NoResult
    /\ pWriteFailed = FALSE /\ pHangs = {}
    /\ IdleOtherThanPipe

\* Every return of compileAndRun: the result is fixed, the finally block runs
Return(outcome, result, files, fails, dir) ==
    /\ pPc' = "returned"
    /\ pOutcome' = outcome
    /\ pResult' = result
    /\ pRemoveFails' = fails
    /\ pFiles' = Cleanup(files, fails)
    /\ pDebugDir' = dir

\* Deno.makeTempFile succeeds
MakeTempFile ==
    /\ pPc = "called"
    /\ pPc' = "tempCreated"
    /\ pFiles' = pFiles \cup {TempFile}
    /\ UNCHANGED <<pSource, pTimeoutReq, pDebug, pHangs, pRemoveFails, pDiag, pStderr,
                   pOutcome, pSpawned, pDebugDir, pWriteFailed, pResult, otherThanPipe>>

\* Deno.makeTempFile throws: outer catch, no temp file exists
MakeTempFileThrows ==
    /\ pPc = "called"
    /\ \E msg \in ExceptionMessages :
          /\ pPc' = "returned"
          /\ pOutcome' = "exception_before_temp"
          /\ pResult' = SystemErrorResult(msg, Absent, ValidatedTimeout(pTimeoutReq))
    /\ UNCHANGED <<pSource, pTimeoutReq, pDebug, pHangs, pFiles, pRemoveFails, pDiag, pStderr,
                   pSpawned, pDebugDir, pWriteFailed, otherThanPipe>>

\* writeTextFile succeeds and osacompile is spawned
SpawnCompiler ==
    /\ pPc = "tempCreated"
    /\ pPc' = "compiling"
    /\ pSpawned' = Append(pSpawned, "osacompile")
    /\ UNCHANGED <<pSource, pTimeoutReq, pDebug, pHangs, pFiles, pRemoveFails, pDiag, pStderr,
                   pOutcome, pDebugDir, pWriteFailed, pResult, otherThanPipe>>

\* writeTextFile or the spawn of osacompile throws: finally, then outer catch
WriteOrSpawnThrows ==
    /\ pPc = "tempCreated"
    /\ \E msg \in ExceptionMessages, fails \in SUBSET {TempFile, TempScpt} :
          Return("exception", SystemErrorResult(msg, Absent, ValidatedTimeout(pTimeoutReq)),
                 pFiles, fails, pDebugDir)
    /\ UNCHANGED <<pSource, pTimeoutReq, pDebug, pHangs, pDiag, pStderr, pSpawned, pWriteFailed,
                   otherThanPipe>>

\* osacompile exits nonzero
CompileFailed ==
    /\ pPc = "compiling"
    /\ "osacompile" \notin pHangs
    /\ \E d \in Diagnostics(Len(pSource)), writeFails \in BOOLEAN,
          fails \in SUBSET {TempFile, TempScpt} :
          LET result == CompileFailureResult(DiagText(d), pSource,
                                             ValidatedTimeout(pTimeoutReq),
                                             pDebug.contextLines)
              saved  == saveDebugScript(result, pDebug, pDebugDir, writeFails)
          IN /\ pDiag' = d
             /\ pStderr' = DiagText(d)
             /\ pWriteFailed' = (writeFails /\ DebugAdmits(result, pDebug))
             /\ Return("compile_failed", AppendDebugFile(result, saved),
                       pFiles, fails, saved.dir)
    /\ UNCHANGED <<pSource, pTimeoutReq, pDebug, pHangs, pSpawned, otherThanPipe>>

\* osacompile exits 0 and runAppleScript spawns osascript on the artifact
CompileSucceeded ==
    /\ pPc = "compiling"
    /\ "osacompile" \notin pHangs
    /\ pPc' = "running"
    /\ pFiles' = pFiles \cup {TempScpt}
    /\ pSpawned' = Append(pSpawned, "osascript")
    /\ UNCHANGED <<pSource, pTimeoutReq, pDebug, pHangs, pRemoveFails, pDiag, pStderr,
                   pOutcome, pDebugDir, pWriteFailed, pResult, otherThanPipe>>

\* osacompile exits 0 and the spawn of osascript throws: runAppleScript's
\* outer catch turns it into a system_error result
RunSpawnThrows ==
    /\ pPc = "compiling"
    /\ "osacompile" \notin pHangs
    /\ \E msg \in ExceptionMessages, writeFails \in BOOLEAN,
          fails \in SUBSET {TempFile, TempScpt} :
          LET timeout == ValidatedTimeout([present |-> TRUE, value |-> ValidatedTimeout(pTimeoutReq)])
              result  == SystemErrorResult(msg, Present(TempScpt), timeout)
              saved   == saveDebugScript(result, pDebug, pDebugDir, writeFails)
          IN /\ pWriteFailed' = (writeFails /\ DebugAdmits(result, pDebug))
             /\ Return("spawn_failed", AppendDebugFileAfterRun(result, saved),
                       pFiles \cup {TempScpt}, fails, saved.dir)
    /\ UNCHANGED <<pSource, pTimeoutReq, pDebug, pHangs, pDiag, pStderr, pSpawned, otherThanPipe>>

\* osascript completes: exit code 0 with output, or nonzero with stderr
RunExit ==
    /\ pPc = "running"
    /\ "osascript" \notin pHangs
    /\ \E code \in {0, 1}, writeFails \in BOOLEAN, fails \in SUBSET {TempFile, TempScpt} :
       \E stderr \in (IF code = 0 THEN {<<>>} ELSE RunDiagnostics) :
          LET timeout == ValidatedTimeout([present |-> TRUE, value |-> ValidatedTimeout(pTimeoutReq)])
              result  == RunExitResult(code, <<"output", " ">>, stderr,
                                       Present(TempScpt), timeout)
              saved   == saveDebugScript(result, pDebug, pDebugDir, writeFails)
          IN /\ pStderr' = stderr
             /\ pWriteFailed' = (writeFails /\ DebugAdmits(result, pDebug))
             /\ Return(IF code = 0 THEN "success" ELSE "runtime_failed",
                       AppendDebugFileAfterRun(result, saved), pFiles, fails, saved.dir)
    /\ UNCHANGED <<pSource, pTimeoutReq, pDebug, pHangs, pDiag, pSpawned, otherThanPipe>>

\* The timeout fires before osascript completes
RunTimeout ==
    /\ pPc = "running"
    /\ \E writeFails \in BOOLEAN, fails \in SUBSET {TempFile, TempScpt} :
          LET timeout == ValidatedTimeout([present |-> TRUE, value |-> ValidatedTimeout(pTimeoutReq)])
              result  == RunTimeoutResult(Present(TempScpt), timeout)
              saved   == saveDebugScript(result, pDebug, pDebugDir, writeFails)
          IN /\ pWriteFailed' = (writeFails /\ DebugAdmits(result, pDebug))
             /\ Return("timeout", AppendDebugFileAfterRun(result, saved),
                       pFiles, fails, saved.dir)
    /\ UNCHANGED <<pSource, pTimeoutReq, pDebug, pHangs, pDiag, pStderr, pSpawned, otherThanPipe>>

\* The timeout fires before osascript completes and the wait resolves with
\* the status of the terminated process
RunTimeoutExit ==
    /\ pPc = "running"
    /\ \E writeFails \in BOOLEAN, fails \in SUBSET {TempFile, TempScpt} :
          LET timeout == ValidatedTimeout([present |-> TRUE, value |-> ValidatedTimeout(pTimeoutReq)])
              result  == RunExitResult(SigtermExitCode, <<>>, <<>>,
                                       Present(TempScpt), timeout)
              saved   == saveDebugScript(result, pDebug, pDebugDir, writeFails)
          IN /\ pWriteFailed' = (writeFails /\ DebugAdmits(result, pDebug))
             /\ Return("timeout_exit", AppendDebugFileAfterRun(result, saved),
                       pFiles, fails, saved.dir)
    /\ UNCHANGED <<pSource, pTimeoutReq, pDebug, pHangs, pDiag, pStderr, pSpawned, otherThanPipe>>

NextPipeline ==
    \/ MakeTempFile
    \/ MakeTempFileThrows
    \/ SpawnCompiler
    \/ WriteOrSpawnThrows
    \/ CompileFailed
    \/ CompileSucceeded
    \/ RunSpawnThrows
    \/ RunExit
    \/ RunTimeout
    \/ RunTimeoutExit

SpecPipeline == InitPipeline /\ [][NextPipeline]_vars

\* compileAndRun with external processes that may never terminate on their
\* own.  The event loop runs every continuation that is ready, and a timer
\* that is armed fires: weak fairness of each step.
InitPipelineLive ==
    /\ pPc = "called"
    /\ pSource \in { <<1>>, <<1, 2>> }
    /\ pTimeoutReq \in PipelineTimeouts
    /\ pDebug \in [enabled : BOOLEAN, saveAll : BOOLEAN, contextLines : {0}]
    /\ pFiles = {} /\ pRemoveFails = {} /\ pDiag = NoDiag /\ pStderr = <<>>
    /\ pOutcome = "none" /\ pSpawned = <<>> /\ pDebugDir = {} /\ pResult = NoResult
    /\ pWriteFailed = FALSE
    /\ pHangs \in SUBSET {"osacompile", "osascript"}
    /\ IdleOtherThanPipe

SpecPipelineLive ==
    InitPipelineLive /\ [][NextPipeline]_vars /\ WF_vars(NextPipeline)

\* C27: every compileAndRun invocation eventually returns a result, even if
\* the compiler or the interpreter it started never terminates on its own.
C27_EventuallyReturns == <>(pPc = "returned")

CompileFailureReturned == pPc = "returned" /\ pOutcome = "compile_failed"

\* C2: on every exit path taken after the temp file was created, the removal
\* of the temp source and of the compiled artifact are each attempted:
\* whichever of the two can be removed no longer exists at the return.
C2_CleanedUp ==
    (pPc = "returned" /\ pOutcome # "exception_before_temp") =>
        \A f \in {TempFile, TempScpt} : f \in pFiles => f \in pRemoveFails

\* C3: in every result returned, success is true exactly when error is absent,
\* and result and error are never both present.
C3_ResultInvariant ==
    pPc = "returned" =>
        /\ pResult.success <=> ~pResult.error.present
        /\ ~(pResult.result.present /\ pResult.error.present)

C3_Witness ==
    /\ CompileFailureReturned
    /\ pResult.error.details.debugFile # <<>>
    /\ ~pResult.success
    /\ ~pResult.result.present

\* C9 (as stated): the kind of a compile-failure result is the kind the
\* classifier assigns to the compiler's diagnostic text.
C9_Original ==
    CompileFailureReturned => pResult.error.type = parseAppleScriptError(pStderr)

\* C9 (amended): every compile failure has kind script_error, whatever the
\* diagnostic text says, with or without the source excerpt in details.
C9_CompileKind ==
    CompileFailureReturned => pResult.error.type = "script_error"

C9_Witness ==
    /\ CompileFailureReturned
    /\ pDiag.phrase = "not authorized"
    /\ pResult.error.details.context # <<>>
    /\ pResult.error.type = "script_error"

\* The 1-based line numbers shown in the script context, and the marked ones
ContextNums(result)   ==
    { result.error.details.context[k].num : k \in 1..Len(result.error.details.context) }
ContextMarked(result) ==
    { result.error.details.context[k].num :
        k \in { j \in 1..Len(result.error.details.context) :
                  result.error.details.context[j].marked } }

\* C10: on compile failure with context-line setting N > 0 and a diagnostic
\* reporting line L, details embeds the source lines max(1, L-N) .. min(last,
\* L+N) with line L marked; for stderr `5:1: syntax error: x` and N = 2 the
\* excerpt is lines 3 to 7 with line 5 marked.
C10_Context ==
    /\ (CompileFailureReturned /\ pDebug.contextLines > 0 /\ pDiag.line > 0) =>
          /\ ContextNums(pResult) =
                Max(1, pDiag.line - pDebug.contextLines) ..
                Min(Len(pSource), pDiag.line + pDebug.contextLines)
          /\ ContextMarked(pResult) = {pDiag.line}
    /\ (/\ CompileFailureReturned
        /\ pStderr = <<"5", ":", "1", ":", " ", "syntax error", ":", " ", "x">>
        /\ pDebug.contextLines = 2
        /\ Len(pSource) >= 7) =>
          /\ ContextNums(pResult) = 3..7
          /\ ContextMarked(pResult) = {5}

\* A debug record (script file and metadata file) was written by this call
Persisted == pDebugDir # {}

C24_PersistedBeforeReturn ==
    (pPc = "returned" /\ DebugAdmits(pResult, pDebug)) => Persisted

----------------------------------------------------------------------------
(* findAndExecuteScript *)

InitLocate ==
    /\ lPc = "ready"
    /\ lInline \in InlineTables
    /\ lFiles \in FileSets
    /\ lStatFails \in SUBSET lFiles
    /\ lContent \in ScriptBodies
    /\ lName \in ScriptNames
    /\ lVars \in Contexts
    /\ lArgs \in ScriptArgLists
    /\ lSent = <<>>
    /\ lOut = NoOutcome
    /\ IdleOtherThanLocate

FindAndExecute ==
    /\ lPc = "ready"
    /\ lOut' = findAndExecuteScript(lInline, lFiles, lStatFails, lName, lContent, lVars)
    /\ lSent' = ScriptArguments(lOut', lArgs)
    /\ lPc' = "done"
    /\ UNCHANGED <<lInline, lFiles, lStatFails, lContent, lName, lVars, lArgs, otherThanLocate>>

NextLocate == FindAndExecute

SpecLocate == InitLocate /\ [][NextLocate]_vars

\* The call resolved the name to a stored source script with a placeholder
\* whose name is no key of the supplied variables
MissingPlaceholderCase ==
    /\ lPc = "done"
    /\ lVars.present
    /\ lOut.key # NoKey /\ ~IsCompiledPath(lOut.key)
    /\ \E n \in PlaceholderNamesFrom(lContent, 1) : n \notin DOMAIN lVars.ctx

\* C4: when the script body references a placeholder that has no key in the
\* supplied variables, the call fails with 'Template variable ... is not
\* defined' and neither the compiler nor the interpreter has been started,
\* whether the script came from the inline table or from the scripts directory.
C4_MissingVariable ==
    MissingPlaceholderCase =>
        /\ lOut.kind = "threw"
        /\ lOut.error = "Template variable is not defined"
        /\ lOut.called = "none"

\* The name has exactly one script file, <name>.applescript, in the scripts
\* directory
OnlySourceFile ==
    /\ lName.ext = <<>>
    /\ { c \in lFiles : \E i \in 1..4 : Candidates(lName)[i] = c }
          = { Key(lName.dir, lName.base, SourceExt) }
    /\ lStatFails = {}

ViaFile(key) == lOut.strategy = "file" /\ lOut.key = key
ViaInline    == lOut.strategy = "inline" /\ lOut.key = InlineResolve(lName, lInline.table)

\* C6 as stated: a name that exists only as <name>.applescript in the scripts
\* directory and that the inline table does not hold is resolved through the
\* file strategy; a name in both the table and the directory is run from the
\* table.
C6_Original ==
    lPc = "done" =>
        /\ (OnlySourceFile /\ InlineResolve(lName, lInline.table) = NoKey)
              => ViaFile(Key(lName.dir, lName.base, SourceExt))
        /\ (lInline.available /\ InlineResolve(lName, lInline.table) # NoKey
              /\ findScriptInPlugin(lName, lFiles, lStatFails) # NoKey)
              => ViaInline

\* C6: the strategy is chosen by the availability of the inline table, not per
\* name.  Without a table, a name that exists only as <name>.applescript is
\* resolved through the file strategy.  With a table, the scripts directory is
\* never consulted: a name the table resolves is run from the table even when
\* the directory has it too, and a name it does not resolve fails with
\* 'Inlined script not found' even when the directory has it.
C6_FallbackOrder ==
    lPc = "done" =>
        /\ (~lInline.available /\ OnlySourceFile)
              => ViaFile(Key(lName.dir, lName.base, SourceExt))
        /\ lInline.available => lOut.strategy = "inline"
        /\ (lInline.available /\ InlineResolve(lName, lInline.table) # NoKey)
              => ViaInline
        /\ (lInline.available /\ InlineResolve(lName, lInline.table) = NoKey)
              => lOut.kind = "threw" /\ lOut.error = "Inlined script not found"

C6_Witness ==
    /\ lPc = "done"
    /\ lInline.available
    /\ InlineResolve(lName, lInline.table) # NoKey
    /\ findScriptInPlugin(lName, lFiles, lStatFails) # NoKey
    /\ lOut.kind = "executed"
    /\ ViaInline

\* The strategy in use has no script for the name
NotFoundCase ==
    /\ lPc = "done"
    /\ IF lInline.available THEN InlineResolve(lName, lInline.table) = NoKey
       ELSE findScriptInPlugin(lName, lFiles, lStatFails) = NoKey

\* C7 as stated: a name that is not found is reported by a returned not-found
\* signal and never by throwing, in both strategies.
C7_Original == NotFoundCase => lOut.kind = "not_found"

\* C7: a name that is not found ends the call by throwing, before anything is
\* run: 'Inlined script not found' from the inline strategy, 'Script not found'
\* from the file strategy.  Only the inner directory probe returns its
\* not-found signal (null), and it does so also when every stat throws, so an
\* I/O failure of the probe surfaces as 'Script not found' as well.
C7_NotFoundThrown ==
    NotFoundCase =>
        /\ lOut.kind = "threw"
        /\ lOut.called = "none"
        /\ lOut.error = IF lInline.available THEN "Inlined script not found"
                        ELSE "Script not found"

C7_Witness ==
    /\ NotFoundCase
    /\ lInline.available
    /\ lOut.kind = "threw"
    /\ lOut.error = "Inlined script not found"
    /\ Key(lName.dir, lName.base, SourceExt) \in lFiles

\* The file strategy is in use and both forms of the name are present
BothFormsInFiles ==
    /\ lPc = "done"
    /\ ~lInline.available
    /\ lName.ext = <<>>
    /\ {Key(lName.dir, lName.base, SourceExt), Key(lName.dir, lName.base, CompiledExt)}
          \subseteq (lFiles \ lStatFails)

\* C16 as stated: when <name>.applescript and <name>.scpt both exist in the
\* scripts directory, the source form is probed first and is the one resolved.
C16_Original ==
    BothFormsInFiles => lOut.key = Key(lName.dir, lName.base, SourceExt)

\* C16: in file storage the compiled form is probed first.  When
\* <name>.scpt and <name>.applescript both exist, <name>.scpt is resolved and
\* run directly; the source form is resolved only when <name>.scpt is missing
\* or cannot be inspected.  A name that carries an extension is probed with a
\* second extension appended, so it never resolves to the file of that name.
C16_CompiledFirst ==
    (lPc = "done" /\ ~lInline.available) =>
        /\ BothFormsInFiles =>
              /\ lOut.key = Key(lName.dir, lName.base, CompiledExt)
              /\ lOut.called = "runAppleScript"
        /\ (lName.ext = <<>>
              /\ Key(lName.dir, lName.base, SourceExt) \in lFiles \ lStatFails
              /\ Key(lName.dir, lName.base, CompiledExt) \notin lFiles \ lStatFails)
              => lOut.key = Key(lName.dir, lName.base, SourceExt)
        /\ lName.ext # <<>> => lOut.key # lName

C16_Witness ==
    /\ BothFormsInFiles
    /\ lOut.kind = "executed"
    /\ lOut.strategy = "file"
    /\ lOut.key = Key(lName.dir, lName.base, CompiledExt)

\* The inline table holds exactly the scripts of the scripts directory
SameStoredScripts ==
    /\ lInline.available
    /\ { lInline.table[i] : i \in 1..Len(lInline.table) } = lFiles
    /\ lStatFails = {}

\* The same call, resolved through the scripts directory
FileStrategyOutcome ==
    findAndExecuteScript([available |-> FALSE, table |-> <<>>], lFiles, lStatFails,
                         lName, lContent, lVars)

\* C25: for the same stored scripts and the same logical name, the file
\* strategy selects the script with the same relative name as the inline
\* strategy, and both find nothing in the same cases.
C25_SameSelection ==
    (lPc = "done" /\ SameStoredScripts) =>
        lOut.key = findScriptInPlugin(lName, lFiles, lStatFails)

\* C26: for a script stored with identical content in the inline table and in
\* the scripts directory, and the same name, variables and arguments, the
\* interpreter gets the same positional script arguments whichever strategy
\* resolves the script.
C26_SameArguments ==
    (/\ lPc = "done" /\ SameStoredScripts
     /\ lOut.kind = "executed" /\ FileStrategyOutcome.kind = "executed"
     /\ lOut.key = FileStrategyOutcome.key) =>
        lSent = ScriptArguments(FileStrategyOutcome, lArgs)

----------------------------------------------------------------------------
(* runAppleScript as a state machine *)

ScriptFile == "script.scpt"

\* options.inline ? undefined : options.script
ScriptPathOf(options) == IF options.inline THEN Absent ELSE Present(ScriptFile)

RunOptions == [inline : BOOLEAN, timeout : PipelineTimeouts]

InitRun ==
    /\ xPc = "called"
    /\ xOptions \in RunOptions
    /\ xAborted = FALSE /\ xKilled = FALSE
    /\ xCode = 0 /\ xStderr = <<>> /\ xError = <<>>
    /\ xOutcome = "none" /\ xResult = NoResult
    /\ IdleOtherThanRun

\* The timer is armed and osascript is spawned
SpawnInterpreter ==
    /\ xPc = "called"
    /\ xPc' = "waiting"
    /\ UNCHANGED <<xOptions, xAborted, xKilled, xCode, xStderr, xError, xOutcome,
                   xResult, otherThanRun>>

\* command.spawn() throws: the inner catch rethrows (not an AbortError), the
\* outer catch returns a system_error result
SpawnThrows ==
    /\ xPc = "called"
    /\ \E msg \in ExceptionMessages :
          /\ xError' = msg
          /\ xResult' = SystemErrorResult(msg, ScriptPathOf(xOptions),
                                          ValidatedTimeout(xOptions.timeout))
    /\ xPc' = "returned"
    /\ xOutcome' = "spawn_failed"
    /\ UNCHANGED <<xOptions, xAborted, xKilled, xCode, xStderr, otherThanRun>>

\* osascript completes before the timer fires; the timer is cleared
ProcessExits ==
    /\ xPc = "waiting"
    /\ \E code \in {0, 1} : \E stderr \in (IF code = 0 THEN {<<>>} ELSE RunDiagnostics) :
          /\ xCode' = code
          /\ xStderr' = stderr
          /\ xResult' = RunExitResult(code, <<"output", " ">>, stderr,
                                      ScriptPathOf(xOptions),
                                      ValidatedTimeout(xOptions.timeout))
          /\ xOutcome' = IF code = 0 THEN "success" ELSE "exit_nonzero"
    /\ xPc' = "returned"
    /\ UNCHANGED <<xOptions, xAborted, xKilled, xError, otherThanRun>>

\* The timer fires first: controller.abort(), and the runtime sends SIGTERM
\* to the process started with that signal
TimerFires ==
    /\ xPc = "waiting"
    /\ xAborted' = TRUE
    /\ xKilled' = TRUE
    /\ xPc' = "aborted"
    /\ UNCHANGED <<xOptions, xCode, xStderr, xError, xOutcome, xResult, otherThanRun>>

\* After the abort the wait on process.output() is rejected with an
\* AbortError, which the inner catch turns into the timeout result
AbortRejects ==
    /\ xPc = "aborted"
    /\ xResult' = RunTimeoutResult(ScriptPathOf(xOptions),
                                   ValidatedTimeout(xOptions.timeout))
    /\ xOutcome' = "abort_rejected"
    /\ xPc' = "returned"
    /\ UNCHANGED <<xOptions, xAborted, xKilled, xCode, xStderr, xError, otherThanRun>>

\* After the abort the wait on process.output() resolves with the status of
\* the terminated process, which takes the nonzero-exit branch
AbortResolves ==
    /\ xPc = "aborted"
    /\ \E stderr \in {<<>>} \cup RunDiagnostics :
          /\ xStderr' = stderr
          /\ xResult' = RunExitResult(SigtermExitCode, <<>>, stderr,
                                      ScriptPathOf(xOptions),
                                      ValidatedTimeout(xOptions.timeout))
    /\ xCode' = SigtermExitCode
    /\ xOutcome' = "abort_resolved"
    /\ xPc' = "returned"
    /\ UNCHANGED <<xOptions, xAborted, xKilled, xError, otherThanRun>>

NextRun ==
    \/ SpawnInterpreter
    \/ SpawnThrows
    \/ ProcessExits
    \/ TimerFires
    \/ AbortRejects
    \/ AbortResolves

SpecRun == InitRun /\ [][NextRun]_vars

\* C11: when the timeout elapses before osascript has completed, the process
\* is cancelled and runAppleScript returns a failure of kind timeout whose
\* metadata.timeoutUsed is the clamped timeout.
C11_TimeoutResult ==
    (xPc = "returned" /\ xAborted) =>
        /\ xKilled
        /\ ~xResult.success
        /\ xResult.error.type = "timeout"
        /\ xResult.metadata.timeoutUsed = ValidatedTimeout(xOptions.timeout)

\* C12: runAppleScript always ends with a result.  A nonzero exit gives a
\* failure whose kind is the classifier's kind for the decoded stderr and
\* whose details are that stderr; a failure to spawn gives a system_error
\* whose message is the exception's message, whatever it says.
C12_AlwaysResult ==
    xPc = "returned" =>
        /\ xResult # NoResult
        /\ xResult.success <=> xOutcome = "success"
        /\ xOutcome = "exit_nonzero" =>
              /\ xResult.error.type = parseAppleScriptError(Trim(xStderr))
              /\ xResult.error.details = DetailsText(Trim(xStderr))
        /\ xOutcome = "spawn_failed" =>
              /\ xResult.error.type = "system_error"
              /\ xResult.error.message = xError

C12_Witness ==
    /\ xPc = "returned"
    /\ xOutcome = "spawn_failed"
    /\ xError = <<"permission denied">>
    /\ parseAppleScriptError(xError) = "permission"
    /\ xResult.error.type = "system_error"

----------------------------------------------------------------------------
(* Tools: run_script (runScript.ts) and read_dictionary (readDictionary.ts) *)

\* The declared ErrorType union
ErrorTypes == {"permission", "timeout", "script_error", "system_error", "disabled"}

\* Every result runAppleScript can return for the given options
RunResults(options) ==
    LET path    == ScriptPathOf(options)
        timeout == ValidatedTimeout(options.timeout)
    IN { RunExitResult(0, <<"output">>, <<>>, path, timeout),
         RunTimeoutResult(path, timeout) }
       \cup { RunExitResult(1, <<>>, e, path, timeout) : e \in RunDiagnostics }
       \cup { RunExitResult(SigtermExitCode, <<>>, e, path, timeout) :
                 e \in {<<>>} \cup RunDiagnostics }
       \cup { SystemErrorResult(msg, path, timeout) : msg \in ExceptionMessages }

\* A tool response: the JSON of a result, or plain text
ResultResponse(result, isError) ==
    [isError |-> isError, kind |-> "result", result |-> result]
TextResponse(isError) ==
    [isError |-> isError, kind |-> "text", result |-> NoResult]

\* isArbitraryScriptsEnabled: ENABLE_ARBITRARY_SCRIPTS === 'true'
isArbitraryScriptsEnabled(env) == env.present /\ env.value = "true"

EnvValues == { [present |-> FALSE, value |-> ""] } \cup
             { [present |-> TRUE, value |-> v] : v \in {"true", "TRUE", "1", "false"} }

\* timeout arguments of a tool call
ToolTimeouts == { [present |-> FALSE, value |-> 0], [present |-> TRUE, value |-> 999999999] }

\* args.timeout ?? 30000
TimeoutOrDefault(timeout) == IF timeout.present THEN timeout.value ELSE 30000

\* The disabled handler classifies its message instead of assigning the kind
runScriptDisabledClassified ==
    ResultResponse(
        createErrorResult(parseAppleScriptError(<<"The run_script tool is disabled for safety">>),
                          <<"The run_script tool is disabled for safety">>,
                          Absent, 0, Present(<<"ERR_DISABLED">>), NoDetails),
        TRUE)

\* Handler of run_script registered while the feature is disabled
runScriptDisabled ==
    ResultResponse(
        createErrorResult("disabled", <<"The run_script tool is disabled for safety">>,
                          Absent, 0, Present(<<"ERR_DISABLED">>), NoDetails),
        TRUE)

\* Handler of run_script registered while the feature is enabled
runScriptEnabled(result) == ResultResponse(result, ~result.success)

ReadDictionaryArgs ==
    [mode : {"absent", "full", "overview", "query", "other"},
     outputFormat : {"absent", "json", "xml"},
     query : {"absent", "empty", "items"},
     timeout : ToolTimeouts]

\* What the sdef process and the parser do during one read_dictionary call
SdefOutcomes == {"spawn_throws", "exit_nonzero", "empty_output", "output",
                 "abort_rejects", "abort_resolves"}

\* createErrorResult as read_dictionary calls it
DictionaryError(errorType, scriptPath, timeoutUsed, code) ==
    ResultResponse(
        createErrorResult(errorType, <<"message">>, scriptPath, timeoutUsed,
                          Present(<<code>>), NoDetails),
        TRUE)

\* read_dictionary handler, after the application path was resolved
readDictionaryAfterResolve(args, sdef, parseThrows) ==
    LET timeoutMs    == TimeoutOrDefault(args.timeout)
        mode         == IF args.mode = "absent" THEN "overview" ELSE args.mode
        outputFormat == IF args.outputFormat = "absent" THEN "json" ELSE args.outputFormat
        parseFailed  == DictionaryError("execution", Absent, 0, "ERR_PARSE_FAILED")
    IN CASE sdef = "spawn_throws"  -> DictionaryError("exception", Absent, 0, "ERR_EXCEPTION")
         [] sdef = "abort_rejects" -> DictionaryError("timeout", Absent, timeoutMs, "ERR_TIMEOUT")
         [] sdef \in {"exit_nonzero", "abort_resolves"} ->
                DictionaryError("execution", Present(<<"stderr">>), 0, "ERR_SDEF_FAILED")
         [] sdef = "empty_output"  ->
                DictionaryError("execution", Present(<<"No output from sdef">>), 0, "ERR_SDEF_EMPTY")
         [] OTHER ->
                CASE mode = "full" ->
                        IF outputFormat = "xml" THEN TextResponse(FALSE)
                        ELSE IF parseThrows THEN parseFailed ELSE TextResponse(FALSE)
                  [] mode = "overview" ->
                        IF parseThrows THEN parseFailed ELSE TextResponse(FALSE)
                  [] mode = "query" ->
                        IF args.query \in {"absent", "empty"}
                        THEN DictionaryError("validation", Absent, 0, "ERR_VALIDATION")
                        ELSE IF parseThrows THEN parseFailed ELSE TextResponse(FALSE)
                  [] OTHER -> TextResponse(FALSE)

\* read_dictionary handler
readDictionary(args, resolveResult, sdef, parseThrows) ==
    IF ~resolveResult.success THEN ResultResponse(resolveResult, TRUE)
    ELSE readDictionaryAfterResolve(args, sdef, parseThrows)

\* A process started under a timer: the command and the timer's delay
Spawned(command, timeout) == [command |-> command, timeout |-> timeout]

InitTools ==
    /\ mPc = "starting"
    /\ mEnv \in EnvValues
    /\ mRegistered = "none"
    /\ mTool = "none" /\ mSpawned = <<>> /\ mResponse = NoResponse
    /\ IdleOtherThanTools

\* getTools of runScript.ts: the handler is chosen when the tools are registered
GetTools ==
    /\ mPc = "starting"
    /\ mRegistered' = IF isArbitraryScriptsEnabled(mEnv) THEN "enabled" ELSE "disabled"
    /\ mPc' = "serving"
    /\ UNCHANGED <<mEnv, mTool, mSpawned, mResponse, otherThanTools>>

\* A run_script call while the disabled handler is registered
RunScriptDisabled ==
    /\ mPc \in {"serving", "responded"}
    /\ mRegistered = "disabled"
    /\ mTool' = "run_script"
    /\ mSpawned' = <<>>
    /\ mResponse' = runScriptDisabled
    /\ mPc' = "responded"
    /\ UNCHANGED <<mEnv, mRegistered, otherThanTools>>

\* A run_script call while the enabled handler is registered
RunScriptEnabled ==
    /\ mPc \in {"serving", "responded"}
    /\ mRegistered = "enabled"
    /\ \E timeout \in ToolTimeouts :
       \E result \in RunResults([inline |-> TRUE,
                                 timeout |-> Present(TimeoutOrDefault(timeout))]) :
          /\ mResponse' = runScriptEnabled(result)
          /\ mSpawned' = <<Spawned("osascript",
                                   ValidatedTimeout(Present(TimeoutOrDefault(timeout))))>>
    /\ mTool' = "run_script"
    /\ mPc' = "responded"
    /\ UNCHANGED <<mEnv, mRegistered, otherThanTools>>

\* A read_dictionary call
ReadDictionary ==
    /\ mPc \in {"serving", "responded"}
    /\ \E args \in ReadDictionaryArgs, sdef \in SdefOutcomes :
       \E parseThrows \in (IF sdef = "output" THEN BOOLEAN ELSE {FALSE}) :
       \E resolveResult \in RunResults([inline |-> TRUE,
                                        timeout |-> Present(TimeoutOrDefault(args.timeout))]) :
          /\ mResponse' = readDictionary(args, resolveResult, sdef, parseThrows)
          /\ mSpawned' =
                LET timeoutMs == TimeoutOrDefault(args.timeout)
                    osascript == Spawned("osascript", ValidatedTimeout(Present(timeoutMs)))
                IN IF resolveResult.success
                   THEN <<osascript, Spawned("sdef", timeoutMs)>>
                   ELSE <<osascript>>
    /\ mTool' = "read_dictionary"
    /\ mPc' = "responded"
    /\ UNCHANGED <<mEnv, mRegistered, otherThanTools>>

NextTools ==
    \/ GetTools
    \/ RunScriptDisabled
    \/ RunScriptEnabled
    \/ ReadDictionary

SpecTools == InitTools /\ [][NextTools]_vars

\* C13: every failure result returned by a tool has error.type in the closed
\* set {permission, timeout, script_error, system_error, disabled}.
C13_ClosedSet ==
    (mPc = "responded" /\ mResponse.kind = "result" /\ ~mResponse.result.success) =>
        mResponse.result.error.type \in ErrorTypes

\* C20: while ENABLE_ARBITRARY_SCRIPTS is not 'true', every run_script call
\* returns a failure of kind disabled, assigned directly (code ERR_DISABLED,
\* whatever the classifier would say of the message), and no process is spawned.
C20_Disabled ==
    (mPc = "responded" /\ mTool = "run_script" /\ ~isArbitraryScriptsEnabled(mEnv)) =>
        /\ mResponse.isError
        /\ mResponse.kind = "result"
        /\ ~mResponse.result.success
        /\ mResponse.result.error.type = "disabled"
        /\ mSpawned = <<>>

C20_Witness ==
    /\ mPc = "responded"
    /\ mTool = "run_script"
    /\ mEnv = [present |-> TRUE, value |-> "TRUE"]
    /\ mResponse.result.error.type = "disabled"
    /\ parseAppleScriptError(mResponse.result.error.message) # "disabled"
    /\ mSpawned = <<>>

\* C21: every process run under a timeout (osascript by runAppleScript, sdef
\* by read_dictionary) gets a timeout no greater than the configured maximum.
C21_Clamped ==
    \A i \in 1..Len(mSpawned) : mSpawned[i].timeout <= MaxTimeout

----------------------------------------------------------------------------
(* Conversion of values by the two renderer entry points *)

InitConvert ==
    /\ vPc = "ready"
    /\ vEntry \in ConvertEntries
    /\ vValue \in JsValues
    /\ vOut = NoConversion
    /\ IdleOtherThanConvert

ConvertValue ==
    /\ vPc = "ready"
    /\ vOut' = Convert(vEntry, vValue)
    /\ vPc' = "done"
    /\ UNCHANGED <<vEntry, vValue, otherThanConvert>>

NextConvert == ConvertValue

SpecConvert == InitConvert /\ [][NextConvert]_vars

Nullish(v) == v.t \in {"null", "undefined"}

\* C14: null and undefined are rendered as `missing value` by both entry
\* points, as the top-level value and as entries of lists and records.
C14_MissingValue ==
    vPc = "done" =>
        /\ Nullish(vValue) => (vOut.ok /\ vOut.text = <<"missing value">>)
        /\ (vValue.t \in {"list", "record"} /\ vValue.items # <<>>
              /\ \A i \in 1..Len(vValue.items) : Nullish(vValue.items[i]))
              => (vOut.ok /\ vOut.text = RecursiveLiteral(vValue))

\* Does a record occur as an element of a list, at any depth of v?
RECURSIVE RecordInsideList(_)
RecordInsideList(v) ==
    /\ v.t \in {"list", "record"}
    /\ \E i \in 1..Len(v.items) :
          \/ v.t = "list" /\ v.items[i].t = "record"
          \/ RecordInsideList(v.items[i])

\* C15 as stated: a list is rendered with every element converted by the
\* rules of a top-level value, a record element as a record literal and a
\* nested list as a list literal, at every depth.
C15_Original ==
    (vPc = "done" /\ vValue.t = "list") =>
        (vOut.ok /\ vOut.text = RecursiveLiteral(vValue))

\* The literal of a list element under the amended rule
RECURSIVE ElementLiteral(_)
ElementLiteral(v) ==
    CASE v.t = "record" -> escapeAppleScriptString(JSONStringify(v))
      [] v.t = "list"   ->
            <<"{">> \o Join([i \in 1..Len(v.items) |-> ElementLiteral(v.items[i])],
                            <<",", " ">>) \o <<"}">>
      [] OTHER          -> RecursiveLiteral(v)

\* C15: a list is rendered as the braced, comma-joined literals of its
\* elements.  Scalars and nested lists are converted by the rules of a
\* top-level value; a record element of a list is rendered as the quoted,
\* escaped JSON text of the record, not as a record literal.  Values with no
\* record inside a list are rendered fully recursively.
C15_ListLiteral ==
    vPc = "done" =>
        /\ vValue.t = "list" => (vOut.ok /\ vOut.text = ElementLiteral(vValue))
        /\ (vValue.t \in {"list", "record"} /\ ~RecordInsideList(vValue))
              => (vOut.ok /\ vOut.text = RecursiveLiteral(vValue))

C15_Witness ==
    /\ vPc = "done"
    /\ vValue = ListV(<< RecV(<<"k1">>, <<NumV(1)>>), ListV(<<StrV(<<"a">>)>>) >>)
    /\ vOut.text = <<"{", DQ, "{", BS, DQ, "k1", BS, DQ, ":", "1", "}", DQ, ",", " ",
                     "{", DQ, "a", DQ, "}", "}">>

----------------------------------------------------------------------------
(* Debug sweep: cleanupDebugFiles (debugCleanup) *)

\* A file of the debug directory: age in days, size in bytes, and the fault
\* its inspection or removal runs into, if any
SweepAges   == {1, 7, 8, 30}
SweepSizes  == {10, 20}
SweepFaults == {"none", "stat", "remove"}
SweepFiles  == [age : SweepAges, size : SweepSizes, fault : SweepFaults]

RetentionDays == 7

\* mtime < cutoffDate, the cutoff being maxAgeDays before now
OlderThan(file, maxAgeDays) == file.age > maxAgeDays

\* One iteration of a sweep that removes files in dry-run mode too
SweepStepAlwaysRemoves(result, files, i, maxAgeDays, execute) ==
    LET counted == [result EXCEPT !.found = @ + 1] IN
    IF files[i].fault = "stat" \/ ~OlderThan(files[i], maxAgeDays) THEN counted
    ELSE [counted EXCEPT !.deleted = @ + 1,
                         !.bytesFreed = @ + files[i].size,
                         !.deletedFiles = Append(@, i),
                         !.removed = @ \cup {i}]

\* One iteration of the walk over the directory, on file number i
SweepStep(result, files, i, maxAgeDays, execute) ==
    LET counted == [result EXCEPT !.found = @ + 1]
        reported == [counted EXCEPT !.deleted = @ + 1,
                                    !.bytesFreed = @ + files[i].size,
                                    !.deletedFiles = Append(@, i)]
    IN IF files[i].fault = "stat" THEN counted
       ELSE IF ~OlderThan(files[i], maxAgeDays) THEN counted
       ELSE IF execute
            THEN IF files[i].fault = "remove" THEN counted
                 ELSE [reported EXCEPT !.removed = @ \cup {i}]
            ELSE reported

RECURSIVE SweepFrom(_, _, _, _, _)
SweepFrom(result, files, i, maxAgeDays, execute) ==
    IF i > Len(files) THEN result
    ELSE SweepFrom(SweepStep(result, files, i, maxAgeDays, execute),
                   files, i + 1, maxAgeDays, execute)

\* cleanupDebugFiles.  dirKind: what Deno.stat(debugDir) finds.
cleanupDebugFiles(dirKind, files, maxAgeDays, execute) ==
    IF dirKind # "directory" THEN EmptyCleanupResult
    ELSE SweepFrom(EmptyCleanupResult, files, 1, maxAgeDays, execute)

InitSweep ==
    /\ sPc = "ready"
    /\ sDirKind \in {"directory", "file", "missing"}
    /\ sFiles \in (IF sDirKind = "directory" THEN SeqsUpTo(SweepFiles, MaxSweepFiles)
                   ELSE {<<>>})
    /\ sExecute \in BOOLEAN
    /\ sResult = EmptyCleanupResult
    /\ IdleOtherThanSweep

CleanupDebugFiles ==
    /\ sPc = "ready"
    /\ sResult' = cleanupDebugFiles(sDirKind, sFiles, RetentionDays, sExecute)
    /\ sPc' = "done"
    /\ UNCHANGED <<sDirKind, sFiles, sExecute, otherThanSweep>>

NextSweep == CleanupDebugFiles

SpecSweep == InitSweep /\ [][NextSweep]_vars

RECURSIVE SumSizes(_, _)
SumSizes(files, idx) ==
    IF idx = <<>> THEN 0 ELSE files[Head(idx)].size + SumSizes(files, Tail(idx))

\* The files older than the retention threshold, in walk order
OldFiles(files, maxAgeDays) ==
    SelectSeq([i \in 1..Len(files) |-> i],
              LAMBDA i : files[i].fault # "stat" /\ OlderThan(files[i], maxAgeDays))

----------------------------------------------------------------------------
(* Interface parser: parseSdefQuery (sdefParser.ts) *)

\* An element of the parsed document: tag, name attribute, direct children.
\* A class carries `property` children, a command `parameter` children.
ChildTag(tag) == IF tag = "class" THEN "property" ELSE "parameter"

Leaf(tag, name) == [tag |-> tag, name |-> name, kids |-> <<>>]

SdefElements ==
    { [tag |-> t, name |-> n,
       kids |-> IF withChild THEN <<Leaf(ChildTag(t), "a")>> ELSE <<>>] :
        t \in {"class", "command"}, n \in {"a", "b"}, withChild \in BOOLEAN }

SdefDocuments == SeqsUpTo(SdefElements, MaxElements)

\* query.split(':') of the tokens of the model: well-formed tokens, a token
\* without name, a token without type, and a token with a third part
QueryTokens ==
    { <<"class", "a">>, <<"command", "b">>, <<"property", "a">>,
      <<"class">>, <<"", "a">>, <<"class", "a", "b">> }

\* doc.getElementsByTagName: the elements in document order, each followed by
\* its children
RECURSIVE DocumentOrder(_)
DocumentOrder(doc) ==
    IF doc = <<>> THEN <<>>
    ELSE <<Head(doc)>> \o Head(doc).kids \o DocumentOrder(Tail(doc))

\* getDirectChildren(element, tagName) mapped to the child names
DirectChildren(element, tagName) ==
    LET idx == SelectSeq([i \in 1..Len(element.kids) |-> i],
                         LAMBDA i : element.kids[i].tag = tagName)
    IN [j \in 1..Len(idx) |-> element.kids[idx[j]].name]

\* The type-specific detail of an item: properties of a class, parameters of
\* a command, nothing for other tags
ItemDetail(type, element) ==
    CASE type = "class"   -> DirectChildren(element, "property")
      [] type = "command" -> DirectChildren(element, "parameter")
      [] OTHER            -> <<>>

\* An entry of result.items.  qi is the position of the query it answers and
\* el the position, in document order, of the element it describes (0: none).
ErrorItem(qi, query, type, name, error) ==
    [qi |-> qi, query |-> query, type |-> type, name |-> name, error |-> error,
     el |-> 0, attributes |-> "none", detail |-> <<>>]
ElementItem(qi, query, type, name, el, element) ==
    [qi |-> qi, query |-> query, type |-> type, name |-> name, error |-> "none",
     el |-> el, attributes |-> element.name, detail |-> ItemDetail(type, element)]

\* A query loop that pushes nothing for a token without match
QueryItemsDropsUnmatched(doc, queries, qi) ==
    LET query == queries[qi]
        type  == IF Len(query) >= 1 THEN query[1] ELSE ""
        name  == IF Len(query) >= 2 THEN query[2] ELSE ""
        all   == DocumentOrder(doc)
        hits  == SelectSeq([i \in 1..Len(all) |-> i],
                           LAMBDA i : all[i].tag = type /\ all[i].name = name)
    IN IF type = "" \/ name = ""
       THEN <<ErrorItem(qi, query, "", "", "Invalid query format")>>
       ELSE [j \in 1..Len(hits) |->
                ElementItem(qi, query, type, name, hits[j], all[hits[j]])]

\* The body of queries.forEach for query number qi: the items it pushes
QueryItems(doc, queries, qi) ==
    LET query == queries[qi]
        type  == IF Len(query) >= 1 THEN query[1] ELSE ""
        name  == IF Len(query) >= 2 THEN query[2] ELSE ""
        all   == DocumentOrder(doc)
        hits  == SelectSeq([i \in 1..Len(all) |-> i],
                           LAMBDA i : all[i].tag = type /\ all[i].name = name)
    IN IF type = "" \/ name = ""
       THEN <<ErrorItem(qi, query, "", "", "Invalid query format")>>
       ELSE IF hits = <<>>
            THEN <<ErrorItem(qi, query, type, name, "Not found")>>
            ELSE [j \in 1..Len(hits) |->
                     ElementItem(qi, query, type, name, hits[j], all[hits[j]])]

RECURSIVE QueryItemsFrom(_, _, _)
QueryItemsFrom(doc, queries, qi) ==
    IF qi > Len(queries) THEN <<>>
    ELSE QueryItems(doc, queries, qi) \o QueryItemsFrom(doc, queries, qi + 1)

\* parseSdefQuery: throws when the XML does not parse, else the items
parseSdefQuery(parses, doc, queries) ==
    IF ~parses THEN [threw |-> TRUE, items |-> <<>>]
    ELSE [threw |-> FALSE, items |-> QueryItemsFrom(doc, queries, 1)]

\* xmlParts of extractSdefQueryXml: comment markers, serialized elements
\* (el: position of the element in document order) and blank separators
XmlPart(kind, query, el) == [kind |-> kind, query |-> query, el |-> el]

\* A query loop that serializes only the first matching element
QueryXmlPartsFirstOnly(doc, queries, qi) ==
    LET query == queries[qi]
        type  == IF Len(query) >= 1 THEN query[1] ELSE ""
        name  == IF Len(query) >= 2 THEN query[2] ELSE ""
        all   == DocumentOrder(doc)
        hits  == SelectSeq([i \in 1..Len(all) |-> i],
                           LAMBDA i : all[i].tag = type /\ all[i].name = name)
    IN IF type = "" \/ name = ""
       THEN <<XmlPart("Invalid query format", query, 0)>>
       ELSE IF hits = <<>>
            THEN <<XmlPart("Not found", query, 0)>>
            ELSE <<XmlPart("Query", query, 0), XmlPart("xml", query, hits[1]),
                   XmlPart("blank", query, 0)>>

\* The body of queries.forEach in extractSdefQueryXml: the parts it pushes
QueryXmlParts(doc, queries, qi) ==
    LET query == queries[qi]
        type  == IF Len(query) >= 1 THEN query[1] ELSE ""
        name  == IF Len(query) >= 2 THEN query[2] ELSE ""
        all   == DocumentOrder(doc)
        hits  == SelectSeq([i \in 1..Len(all) |-> i],
                           LAMBDA i : all[i].tag = type /\ all[i].name = name)
    IN IF type = "" \/ name = ""
       THEN <<XmlPart("Invalid query format", query, 0)>>
       ELSE IF hits = <<>>
            THEN <<XmlPart("Not found", query, 0)>>
            ELSE [j \in 1..(3 * Len(hits)) |->
                     CASE j % 3 = 1 -> XmlPart("Query", query, 0)
                       [] j % 3 = 2 -> XmlPart("xml", query, hits[(j + 1) \div 3])
                       [] OTHER     -> XmlPart("blank", query, 0)]

RECURSIVE QueryXmlPartsFrom(_, _, _)
QueryXmlPartsFrom(doc, queries, qi) ==
    IF qi > Len(queries) THEN <<>>
    ELSE QueryXmlParts(doc, queries, qi) \o QueryXmlPartsFrom(doc, queries, qi + 1)

\* extractSdefQueryXml: throws when the XML does not parse, else the parts
extractSdefQueryXml(parses, doc, queries) ==
    IF ~parses THEN [threw |-> TRUE, parts |-> <<>>]
    ELSE [threw |-> FALSE, parts |-> QueryXmlPartsFrom(doc, queries, 1)]

InitQuery ==
    /\ qPc = "ready"
    /\ qParses \in BOOLEAN
    /\ qDoc \in (IF qParses THEN SdefDocuments ELSE {<<>>})
    /\ qQueries \in SeqsUpTo(QueryTokens, MaxQueries)
    /\ qResult = NoQueryResult
    /\ qXml = NoXml
    /\ IdleOtherThanQuery

ParseSdefQuery ==
    /\ qPc = "ready"
    /\ qResult' = parseSdefQuery(qParses, qDoc, qQueries)
    /\ qPc' = "done"
    /\ UNCHANGED <<qParses, qDoc, qQueries, qXml, otherThanQuery>>

\* The same document and queries given to extractSdefQueryXml
ExtractSdefQueryXml ==
    /\ qPc = "done"
    /\ qXml = NoXml
    /\ qXml' = extractSdefQueryXml(qParses, qDoc, qQueries)
    /\ UNCHANGED <<qPc, qParses, qDoc, qQueries, qResult, otherThanQuery>>

NextQuery ==
    \/ ParseSdefQuery
    \/ ExtractSdefQueryXml

SpecQuery == InitQuery /\ [][NextQuery]_vars

\* Positions, in document order, of the elements a token matches
MatchesOf(doc, query) ==
    LET all == DocumentOrder(doc) IN
    SelectSeq([i \in 1..Len(all) |-> i],
              LAMBDA i : Len(query) >= 2 /\ all[i].tag = query[1] /\ all[i].name = query[2])

WellFormedToken(query) == Len(query) >= 2 /\ query[1] # "" /\ query[2] # ""

\* C19: parseSdefQuery answers the tokens in query order with at least one
\* item each (type and name being the first two parts of the token): one
\* full-detail item per element whose tag and name attribute match, in
\* document order, or one 'Not found' entry when no element matches; a token
\* without type or name gets an 'Invalid query format' entry.  No token is
\* dropped and no element that does not match is returned.
C19_Query ==
    (qPc = "done" /\ ~qResult.threw) =>
        LET items == qResult.items
            all   == DocumentOrder(qDoc)
            of(k) == SelectSeq(items, LAMBDA it : it.qi = k)
        IN /\ \A k \in 1..Len(qQueries) : of(k) # <<>>
           /\ \A i, j \in 1..Len(items) : i < j => items[i].qi <= items[j].qi
           /\ \A i \in 1..Len(items) :
                 /\ items[i].qi \in 1..Len(qQueries)
                 /\ items[i].query = qQueries[items[i].qi]
                 /\ items[i].error = "none" =>
                       /\ items[i].el \in 1..Len(all)
                       /\ all[items[i].el].tag = qQueries[items[i].qi][1]
                       /\ all[items[i].el].name = qQueries[items[i].qi][2]
                       /\ items[i].attributes = all[items[i].el].name
                       /\ items[i].detail = ItemDetail(items[i].type, all[items[i].el])
           /\ \A k \in 1..Len(qQueries) :
                 IF ~WellFormedToken(qQueries[k])
                 THEN Len(of(k)) = 1 /\ of(k)[1].error = "Invalid query format"
                 ELSE IF MatchesOf(qDoc, qQueries[k]) = <<>>
                      THEN Len(of(k)) = 1 /\ of(k)[1].error = "Not found"
                      ELSE [j \in 1..Len(of(k)) |-> of(k)[j].el]
                              = MatchesOf(qDoc, qQueries[k])

C19_Witness ==
    /\ qPc = "done"
    /\ qQueries = << <<"command", "b">>, <<"class", "a">> >>
    /\ Len(qDoc) = 2 /\ qDoc[1].tag = "class" /\ qDoc[1].name = "a"
    /\ qDoc[2].tag = "class" /\ qDoc[2].name = "a"
    /\ Len(qResult.items) = 3
    /\ qResult.items[1].error = "Not found"
    /\ qResult.items[2].el = 1

----------------------------------------------------------------------------
(* Several runAppleScript invocations in flight *)

Invocations == 1..NumInvocations

\* One controller shared by every invocation
ControllerOfShared(i) == 1

\* const controller = new AbortController(): each call of runAppleScript
\* creates its own controller and gives its signal to the process it spawns
ControllerOf(i) == i

ConcurrentOptions == [inline |-> TRUE, timeout |-> Absent]

InitConcurrent ==
    /\ ivPc = [i \in Invocations |-> "called"]
    /\ ivAborted = [i \in Invocations |-> FALSE]
    /\ ivKilled = [i \in Invocations |-> FALSE]
    /\ ivResult = [i \in Invocations |-> NoResult]
    /\ IdleOtherThanConcurrent

\* Invocation i arms its timer and spawns osascript
SpawnIn(i) ==
    /\ ivPc[i] = "called"
    /\ ivPc' = [ivPc EXCEPT ![i] = "waiting"]
    /\ UNCHANGED <<ivAborted, ivKilled, ivResult, otherThanConcurrent>>

\* command.spawn() throws in invocation i: a system_error result
SpawnThrowsIn(i) ==
    /\ ivPc[i] = "called"
    /\ \E msg \in ExceptionMessages :
          ivResult' = [ivResult EXCEPT ![i] =
                          SystemErrorResult(msg, Absent,
                                            ValidatedTimeout(ConcurrentOptions.timeout))]
    /\ ivPc' = [ivPc EXCEPT ![i] = "returned"]
    /\ UNCHANGED <<ivAborted, ivKilled, otherThanConcurrent>>

\* The process of invocation i completes before any abort reaches it
ProcessExitsIn(i) ==
    /\ ivPc[i] = "waiting"
    /\ \E code \in {0, 1} : \E stderr \in (IF code = 0 THEN {<<>>} ELSE RunDiagnostics) :
          ivResult' = [ivResult EXCEPT ![i] =
                          RunExitResult(code, <<"output">>, stderr, Absent,
                                        ValidatedTimeout(ConcurrentOptions.timeout))]
    /\ ivPc' = [ivPc EXCEPT ![i] = "returned"]
    /\ UNCHANGED <<ivAborted, ivKilled, otherThanConcurrent>>

\* The timer of invocation i fires: its controller aborts, and the runtime
\* sends SIGTERM to every running process that was started with that
\* controller's signal
TimerFiresIn(i) ==
    /\ ivPc[i] = "waiting"
    /\ ivAborted' = [ivAborted EXCEPT ![ControllerOf(i)] = TRUE]
    /\ ivKilled' = [j \in Invocations |->
                       ivKilled[j] \/ (ivPc[j] = "waiting" /\ ControllerOf(j) = ControllerOf(i))]
    /\ ivPc' = [j \in Invocations |->
                   IF ivPc[j] = "waiting" /\ ControllerOf(j) = ControllerOf(i)
                   THEN "aborted" ELSE ivPc[j]]
    /\ UNCHANGED <<ivResult, otherThanConcurrent>>

\* The wait of a terminated process ends: rejected with an AbortError, or
\* resolved with the status of the terminated process
AbortEndsIn(i) ==
    /\ ivPc[i] = "aborted"
    /\ \E rejects \in BOOLEAN :
          ivResult' = [ivResult EXCEPT ![i] =
                          IF rejects
                          THEN RunTimeoutResult(Absent, ValidatedTimeout(ConcurrentOptions.timeout))
                          ELSE RunExitResult(SigtermExitCode, <<>>, <<>>, Absent,
                                             ValidatedTimeout(ConcurrentOptions.timeout))]
    /\ ivPc' = [ivPc EXCEPT ![i] = "returned"]
    /\ UNCHANGED <<ivAborted, ivKilled, otherThanConcurrent>>

NextConcurrent ==
    \E i \in Invocations :
        \/ SpawnIn(i)
        \/ SpawnThrowsIn(i)
        \/ ProcessExitsIn(i)
        \/ TimerFiresIn(i)
        \/ AbortEndsIn(i)

SpecConcurrent == InitConcurrent /\ [][NextConcurrent]_vars

\* C22: a timeout that fires in one invocation cancels only that invocation's
\* process: in the step of the timer, no other invocation's process is
\* terminated, no other controller is aborted and no other result changes;
\* a process is only ever terminated by its own invocation's timer.
C22_Isolation ==
    /\ [](\A j \in Invocations : ivKilled[j] => ivAborted[j])
    /\ [][\A i \in Invocations :
             (ivPc[i] = "waiting" /\ ivPc'[i] = "aborted") =>
                \A j \in Invocations \ {i} :
                    /\ ivKilled'[j] = ivKilled[j]
                    /\ ivAborted'[j] = ivAborted[j]
                    /\ ivPc'[j] = ivPc[j]
                    /\ ivResult'[j] = ivResult[j]]_vars

C22_Witness ==
    /\ ivPc[1] = "aborted" /\ ivKilled[1]
    /\ ivPc[2] = "waiting" /\ ~ivKilled[2] /\ ~ivAborted[2]

----------------------------------------------------------------------------
(* saveDebugScript called by several pipeline invocations in flight *)

Recorders == 1..NumRecorders

\* `${timestamp}_${status}.applescript` / `.json`, the timestamp being the
\* ISO time of the clock in milliseconds
StampedFileName(stamp, status, ext) == <<stamp, status, ext>>

StatusOf(success) == IF success THEN "success" ELSE "failed"

InitRecorders ==
    /\ dPc = [i \in Recorders |-> "called"]
    /\ dSuccess \in [Recorders -> BOOLEAN]
    /\ dConfig \in [enabled : BOOLEAN, saveAll : BOOLEAN]
    /\ dStamp = [i \in Recorders |-> 0]
    /\ dNow = 0
    /\ dWrites = {}
    /\ IdleOtherThanRecorders

\* The clock reaches the next millisecond
ClockTick ==
    /\ dNow < MaxClock
    /\ dNow' = dNow + 1
    /\ UNCHANGED <<dPc, dSuccess, dConfig, dStamp, dWrites, otherThanRecorders>>

\* saveDebugScript up to `await ensureDir`: the two early returns
EnterRecorder(i) ==
    /\ dPc[i] = "called"
    /\ dPc' = [dPc EXCEPT ![i] =
                  IF DebugAdmits([success |-> dSuccess[i]], dConfig)
                  THEN "ensuring" ELSE "returned"]
    /\ UNCHANGED <<dSuccess, dConfig, dStamp, dNow, dWrites, otherThanRecorders>>

\* ensureDir has resolved: the timestamp is read and the script file written
WriteScriptFile(i) ==
    /\ dPc[i] = "ensuring"
    /\ dStamp' = [dStamp EXCEPT ![i] = dNow]
    /\ dWrites' = dWrites \cup
          { [name |-> StampedFileName(dNow, StatusOf(dSuccess[i]), "applescript"),
             by |-> i] }
    /\ dPc' = [dPc EXCEPT ![i] = "script_written"]
    /\ UNCHANGED <<dSuccess, dConfig, dNow, otherThanRecorders>>

\* The script file is on disk: the metadata file is written
WriteMetaFile(i) ==
    /\ dPc[i] = "script_written"
    /\ dWrites' = dWrites \cup
          { [name |-> StampedFileName(dStamp[i], StatusOf(dSuccess[i]), "json"),
             by |-> i] }
    /\ dPc' = [dPc EXCEPT ![i] = "returned"]
    /\ UNCHANGED <<dSuccess, dConfig, dStamp, dNow, otherThanRecorders>>

NextRecorders ==
    \/ ClockTick
    \/ \E i \in Recorders :
          \/ EnterRecorder(i)
          \/ WriteScriptFile(i)
          \/ WriteMetaFile(i)

SpecRecorders == InitRecorders /\ [][NextRecorders]_vars

\* C23: debug records written by concurrently running invocations never
\* target the same filename: every file is written by one invocation only.
C23_NoCollision ==
    \A w1, w2 \in dWrites : w1.name = w2.name => w1.by = w2.by

\* C28: extractSdefQueryXml and parseSdefQuery select the same elements.  For
\* the same document and queries both throw or neither does; and for every
\* token both report it malformed, both report it not found, or both return
\* the same matching elements in the same order.
C28_SameMatches ==
    (qPc = "done" /\ qXml # NoXml) =>
        /\ qXml.threw = qResult.threw
        /\ \A k \in 1..Len(qQueries) :
              LET items == SelectSeq(qResult.items, LAMBDA it : it.qi = k)
                  parts == SelectSeq(qXml.parts, LAMBDA pt : pt.query = qQueries[k])
                  found == SelectSeq(parts, LAMBDA pt : pt.kind = "xml")
                  times == Cardinality({ j \in 1..Len(qQueries) : qQueries[j] = qQueries[k] })
              IN ~qXml.threw =>
                 /\ (\E i \in 1..Len(items) : items[i].error = "Invalid query format")
                       <=> (\E i \in 1..Len(parts) : parts[i].kind = "Invalid query format")
                 /\ (\E i \in 1..Len(items) : items[i].error = "Not found")
                       <=> (\E i \in 1..Len(parts) : parts[i].kind = "Not found")
                 /\ LET hits == SelectSeq(items, LAMBDA it : it.error = "none") IN
                    /\ Len(found) = times * Len(hits)
                    /\ \A i \in 1..Len(found) :
                          found[i].el = hits[((i - 1) % Len(hits)) + 1].el

C28_Witness ==
    /\ qPc = "done" /\ qXml # NoXml /\ ~qXml.threw
    /\ qQueries = << <<"command", "b">>, <<"class", "a">> >>
    /\ Len(qDoc) = 2 /\ qDoc[1].tag = "class" /\ qDoc[1].name = "a"
    /\ qDoc[2].tag = "class" /\ qDoc[2].name = "a"
    /\ Len(SelectSeq(qXml.parts, LAMBDA pt : pt.kind = "xml")) = 2
    /\ qXml.parts[1].kind = "Not found"

----------------------------------------------------------------------------
(* renderTemplate on values that contain placeholder text *)

\* The template "${s} ${t}"
TemplateST == TemplateS \o <<" ", "$", "{", "t", "}">>

PlaceholderChars == {"$", "{", "t", "}"}

\* The context: s is the value under test, t is a key or not
SinglePassContext(value, hasT) ==
    IF hasT
    THEN [k \in {<<"s">>, <<"t">>} |->
             IF k = <<"s">> THEN StrV(value) ELSE StrV(<<"w">>)]
    ELSE [k \in {<<"s">>} |-> StrV(value)]

InitSinglePass ==
    /\ gPc = "ready"
    /\ gTemplate \in {TemplateS, TemplateST}
    /\ gValue \in SeqsUpTo(PlaceholderChars, MaxValueLen)
    /\ gHasT \in BOOLEAN
    /\ gOut = [ok |-> FALSE, error |-> "none", text |-> <<>>]
    /\ IdleOtherThanSinglePass

RenderTemplate ==
    /\ gPc = "ready"
    /\ gOut' = renderTemplate(gTemplate, SinglePassContext(gValue, gHasT))
    /\ gPc' = "done"
    /\ UNCHANGED <<gTemplate, gValue, gHasT, otherThanSinglePass>>

NextSinglePass == RenderTemplate

SpecSinglePass == InitSinglePass /\ [][NextSinglePass]_vars

\* C29: renderTemplate substitutes in one pass.  Placeholder text inside a
\* substituted value comes out as text of the literal, never expanded, so the
\* rendering of "${s}" is the escaped value whether or not the name inside
\* it is a key of the context, and each placeholder of the template is
\* replaced by the literal of its own value only.
C29_SinglePass ==
    gPc = "done" =>
        /\ gTemplate = TemplateS =>
              /\ gOut.ok
              /\ gOut.text = escapeAppleScriptString(gValue)
              /\ gOut = renderTemplate(gTemplate, SinglePassContext(gValue, ~gHasT))
        /\ (gTemplate = TemplateST /\ gHasT) =>
              /\ gOut.ok
              /\ gOut.text = escapeAppleScriptString(gValue) \o <<" ">>
                                \o escapeAppleScriptString(<<"w">>)
        /\ (gTemplate = TemplateST /\ ~gHasT) => ~gOut.ok

C29_Witness ==
    /\ gPc = "done"
    /\ gTemplate = TemplateS
    /\ gValue = <<"$", "{", "t", "}">>
    /\ gHasT
    /\ gOut.text = <<DQ, "$", "{", "t", "}", DQ>>

----------------------------------------------------------------------------
(* read_dictionary: the inline script that resolves the application *)

\* `POSIX path of (path to application "${args.application}")`: a JavaScript
\* template literal, the name is inserted as it is
resolveScript(application) ==
    <<"POSIX path of (path to application ", DQ>> \o application \o <<DQ, ")">>

InitResolve ==
    /\ aPc = "called"
    /\ aApplication \in SeqsUpTo(StrChars, MaxStrLen)
    /\ aScript = <<>>
    /\ IdleOtherThanResolve

\* The handler builds the script it gives to runAppleScript
BuildResolveScript ==
    /\ aPc = "called"
    /\ aScript' = resolveScript(aApplication)
    /\ aPc' = "built"
    /\ UNCHANGED <<aApplication, otherThanResolve>>

NextResolve == BuildResolveScript

SpecResolve == InitResolve /\ [][NextResolve]_vars

\* C30: the application name stands in the inline script as a properly
\* escaped string literal: the text from the opening quote to the quote
\* before the closing parenthesis is one well-escaped literal.
C30_EscapedLiteral ==
    aPc = "built" =>
        /\ Len(aScript) >= 4
        /\ WellEscapedLiteral(SubSeq(aScript, 2, Len(aScript) - 1))

====
